---------------------------- MODULE Spec2Model ----------------------------
(***************************************************************************)
(* Model of the PiRouter backend (src/backend): the WireGuard tunnel        *)
(* lifecycle and kill switch (vpn_manager.py), the fwmark bypass            *)
(* infrastructure, device routing and domain bypass (routing.py,           *)
(* device_manager.py, domain_manager.py) and the JSON policy               *)
(* (config_manager.py, models.py).                                          *)
(*                                                                         *)
(* Every handler is one action: it runs the handler's whole command         *)
(* sequence against the OS state `sys`.  utils.run_command never raises on  *)
(* a non-zero exit, so a command's failure is an input of the action: the   *)
(* tunnel tooling (systemctl, wg, wg-quick, ip link, cp) and the iproute2   *)
(* commands of the infrastructure may fail for reasons outside the model;   *)
(* iptables behaves by its semantics: -A and -I add a rule, -D removes the  *)
(* first matching rule and fails when there is none.                        *)
(***************************************************************************)
EXTENDS Naturals, Sequences, FiniteSets

VARIABLES
    profiles,   \* VPN_PROFILES_DIR: profile name -> file content
    policy,     \* router_config.json: the RouterConfig document
    sys,        \* OS state: /etc/wireguard, interfaces, units, netfilter, iproute2
    env,        \* neighbor table and DNS answers
    result,     \* the last call: operation, argument, status
    prev,       \* the tunnel call before the last tunnel call
    hist,       \* per IP: the apply_device_routing calls that resolved to it
    issued,     \* the kernel commands issued by the last bypass call
    calls,      \* per request in flight: its position and local variables
    file        \* router_config.json as a reader finds it: one document or not

vars == <<profiles, policy, sys, env, result, prev, hist, issued, calls, file>>

-----------------------------------------------------------------------------
(* Configuration: config_manager.py, routing.py *)

WG_INTERFACE == "wg0"

\* A tunnel left by the retired bash scripts (vpn_manager.py:47), e.g. wg-lon-st001.
LegacyNames == {"wg-lon-st001"}

IfaceNames == {WG_INTERFACE} \cup LegacyNames

\* The orders in which a listing may give the names of S: Path.glob gives
\* the config files in the directory's order and `wg show interfaces` the
\* interfaces in the kernel's, neither sorted.
Enumerations(S) ==
    {q \in [1..Cardinality(S) -> S] :
        \A i, j \in DOMAIN q : q[i] = q[j] => i = j}

\* The same, tabulated for the sets of interface names.
EnumerationsOf == [S \in SUBSET IfaceNames |-> Enumerations(S)]

Listings(S) ==
    IF S \subseteq IfaceNames THEN EnumerationsOf[S] ELSE Enumerations(S)

None == "None"

\* Names a connect request may carry: two stored profiles and one unknown name.
RequestNames == {"siteA", "siteB", "ghost"}

\* The profile store at start: each profile with its own content.
StoredProfiles == [n \in {"siteA", "siteB"} |->
                      IF n = "siteA" THEN "contentA" ELSE "contentB"]

\* RouterConfig() defaults (models.py:26-31)
RouterConfig == [active_vpn |-> None, kill_switch_enabled |-> FALSE,
                 devices |-> <<>>, domain_bypasses |-> <<>>]

load_config == policy

\* The characters of a name or domain that the policy document holds.
Chars(str) ==
    CASE str = "example.com" -> 11
      [] str = "cdn.example.net" -> 15
      [] str = "wg-lon-st001" -> 12
      [] OTHER -> 5

RECURSIVE SumSeq(_)
SumSeq(nums) == IF nums = <<>> THEN 0 ELSE Head(nums) + SumSeq(Tail(nums))

\* The characters json.dump(..., indent=2) writes for a list whose items
\* take Each(item) characters: "[]" when empty, else one item per line.
ListChars(seq, Each(_)) ==
    IF seq = <<>> THEN 2
    ELSE 6 + SumSeq([i \in 1..Len(seq) |-> Each(seq[i])]) + 2 * (Len(seq) - 1)

\* The length of the text save_config writes for a document: json.dump of
\* config.dict() with indent=2.  MACs take 17 characters, addresses
\* 192.168.10.x take 13, and the leases carry no host name (null).
JsonLen(config) ==
    LET DeviceChars(d) == IF d.bypass_vpn THEN 123 ELSE 124
        DomainChars(d) == 53 + Chars(d.domain) + (IF d.enabled THEN 0 ELSE 1)
    IN  89 + (IF config.active_vpn = None THEN 4
              ELSE 2 + Chars(config.active_vpn))
           + (IF config.kill_switch_enabled THEN 4 ELSE 5)
           + ListChars(config.devices, DeviceChars) - 2
           + ListChars(config.domain_bypasses, DomainChars) - 2

\* router_config.json after a save_config that ran alone: the document.
WholeFile(config) == [ok |-> TRUE, len |-> JsonLen(config)]

\* open(CONFIG_FILE, 'w'): the file is empty until the dump is written.
EmptyFile == [ok |-> FALSE, len |-> 0]

\* json.dump and close of a writer whose text takes n characters, written
\* from offset 0 of the file as it is by then: bytes beyond n stay, and with
\* them the file is no JSON document.
WrittenOver(f, n) == [ok |-> f.len <= n, len |-> IF f.len <= n THEN n ELSE f.len]

-----------------------------------------------------------------------------
(* iptables chains are sequences of rules; a rule is a record [t, ip]. *)

KILLSWITCH == [t |-> "KILLSWITCH_REJECT", ip |-> "-"]

Count(chain, rule) == Cardinality({i \in 1..Len(chain) : chain[i] = rule})

FirstIndex(chain, rule) ==
    CHOOSE i \in 1..Len(chain) :
        chain[i] = rule /\ \A j \in 1..(i - 1) : chain[j] # rule

\* iptables -D <chain> <rule>: removes the first matching rule, else fails and
\* changes nothing.
IptDelete(chain, rule) ==
    IF Count(chain, rule) = 0 THEN chain
    ELSE LET i == FirstIndex(chain, rule)
         IN  SubSeq(chain, 1, i - 1) \o SubSeq(chain, i + 1, Len(chain))

\* iptables -A <chain> <rule>
IptAppend(chain, rule) == Append(chain, rule)

\* iptables -I <chain> 1 <rule>
IptInsertFirst(chain, rule) == <<rule>> \o chain

-----------------------------------------------------------------------------
(* vpn_manager.py *)

\* What a handler leaves: the OS state, the saved policy and the HTTP outcome.
Outcome(s, p, status) == [s |-> s, p |-> p, status |-> status]

\* Faulty variant: the reject rule is appended to the chain.
apply_kill_switch_appends(s, block) ==
    IF block
    THEN [s EXCEPT !.forward = IptAppend(IptDelete(@, KILLSWITCH), KILLSWITCH)]
    ELSE [s EXCEPT !.forward = IptDelete(@, KILLSWITCH)]

\* routing.py apply_kill_switch: block deletes the tagged rule and inserts it
\* at position 1; unblock deletes it.
apply_kill_switch(s, block) ==
    IF block
    THEN [s EXCEPT !.forward = IptInsertFirst(IptDelete(@, KILLSWITCH), KILLSWITCH)]
    ELSE [s EXCEPT !.forward = IptDelete(@, KILLSWITCH)]

\* Faulty variant: autostart is switched for the unit of every config file in
\* the WireGuard directory.
set_boot_persistence_every_config(s, enable, ok) ==
    IF ~ok THEN s
    ELSE IF enable THEN [s EXCEPT !.units = @ \cup s.confs]
    ELSE [s EXCEPT !.units = @ \ s.confs]

\* systemctl enable|disable wg-quick@wg0; a failure is logged and ignored.
set_boot_persistence(s, enable, ok) ==
    IF ~ok THEN s
    ELSE IF enable THEN [s EXCEPT !.units = @ \cup {WG_INTERFACE}]
    ELSE [s EXCEPT !.units = @ \ {WG_INTERFACE}]

\* wg-quick down <iface> needs /etc/wireguard/<iface>.conf and may fail anyway.
WgQuickDownOk(s, iface, ok) == ok /\ iface \in s.confs /\ iface \in s.ifUp

\* wg-quick up <iface> needs the config file, refuses an interface that
\* already exists, and may fail anyway (e.g. a config wg rejects).
WgQuickUpOk(s, iface, ok) == ok /\ iface \in s.confs /\ iface \notin s.ifUp

\* cleanup_previous_state.  ch names the commands that succeed:
\*   ch.disabled  configs whose `systemctl disable wg-quick@<stem>` succeeds
\*   ch.stopped   legacy configs whose service was running and is stopped by
\*                `systemctl stop`, which takes that interface down
\*   ch.list      `wg show interfaces` succeeds
\*   ch.down      interfaces whose `wg-quick down` succeeds
\*   ch.del       interfaces whose `ip link delete` succeeds
\* The forced deletion runs only for a listed interface whose graceful
\* teardown failed.
cleanup_previous_state(s, ch) ==
    LET s1 == [s EXCEPT !.units = @ \ (s.confs \cap ch.disabled),
                        !.ifUp = @ \ (s.confs \cap LegacyNames \cap ch.stopped)]
        found == IF ch.list THEN s1.ifUp ELSE {}
        graceful == {i \in found : WgQuickDownOk(s1, i, i \in ch.down)}
        forced == {i \in found \ graceful : i \in ch.del}
    IN  [s1 EXCEPT !.ifUp = @ \ (graceful \cup forced)]

\* Faulty variant: the existence check is skipped.
profile_exists_unchecked(store, profile_name) == TRUE

\* profile_file.exists()
profile_exists(store, profile_name) == profile_name \in DOMAIN store

\* Faulty variant: the kill-switch rule is removed before the bring-up, so a
\* failed bring-up leaves the rule removed.
connect_vpn_kill_switch_first(store, config, s, profile_name, ch) ==
    IF ~profile_exists(store, profile_name) THEN Outcome(s, config, "404")
    ELSE
    LET s0 == cleanup_previous_state(s, ch)
        s1 == IF config.kill_switch_enabled
              THEN apply_kill_switch(s0, FALSE) ELSE s0 IN
    IF ~ch.cp THEN Outcome(s1, config, "500")
    ELSE
    LET s2 == [s1 EXCEPT !.confs = @ \cup {WG_INTERFACE},
                         !.liveConf = store[profile_name]] IN
    IF ~WgQuickUpOk(s2, WG_INTERFACE, ch.up) THEN Outcome(s2, config, "500")
    ELSE
    LET s3 == [s2 EXCEPT !.ifUp = @ \cup {WG_INTERFACE}]
        s4 == set_boot_persistence(s3, TRUE, ch.enable)
    IN  Outcome(s4, [config EXCEPT !.active_vpn = profile_name], "connected")

\* Faulty variant: a failed autostart enable fails the call.
connect_vpn_enable_fatal(store, config, s, profile_name, ch) ==
    IF ~profile_exists(store, profile_name) THEN Outcome(s, config, "404")
    ELSE
    LET s1 == cleanup_previous_state(s, ch) IN
    IF ~ch.cp THEN Outcome(s1, config, "500")
    ELSE
    LET s2 == [s1 EXCEPT !.confs = @ \cup {WG_INTERFACE},
                         !.liveConf = store[profile_name]] IN
    IF ~WgQuickUpOk(s2, WG_INTERFACE, ch.up) THEN Outcome(s2, config, "500")
    ELSE
    LET s3 == [s2 EXCEPT !.ifUp = @ \cup {WG_INTERFACE}] IN
    IF ~ch.enable THEN Outcome(s3, config, "500")
    ELSE
    LET s4 == set_boot_persistence(s3, TRUE, ch.enable)
        s5 == IF config.kill_switch_enabled
              THEN apply_kill_switch(s4, FALSE) ELSE s4
    IN  Outcome(s5, [config EXCEPT !.active_vpn = profile_name], "connected")

\* Faulty variant: the cleanup pass is skipped when the requested profile is
\* already the active one.
connect_vpn_skips_cleanup_when_active(store, config, s, profile_name, ch) ==
    IF ~profile_exists(store, profile_name) THEN Outcome(s, config, "404")
    ELSE
    LET s1 == IF config.active_vpn = profile_name THEN s
              ELSE cleanup_previous_state(s, ch) IN
    IF ~ch.cp THEN Outcome(s1, config, "500")
    ELSE
    LET s2 == [s1 EXCEPT !.confs = @ \cup {WG_INTERFACE},
                         !.liveConf = store[profile_name]] IN
    IF ~WgQuickUpOk(s2, WG_INTERFACE, ch.up) THEN Outcome(s2, config, "500")
    ELSE
    LET s3 == [s2 EXCEPT !.ifUp = @ \cup {WG_INTERFACE}]
        s4 == set_boot_persistence(s3, TRUE, ch.enable)
        s5 == IF config.kill_switch_enabled
              THEN apply_kill_switch(s4, FALSE) ELSE s4
    IN  Outcome(s5, [config EXCEPT !.active_vpn = profile_name], "connected")

\* Faulty variant: the kill-switch rule is left in place after the bring-up.
connect_vpn_keeps_reject_rule(store, config, s, profile_name, ch) ==
    IF ~profile_exists(store, profile_name) THEN Outcome(s, config, "404")
    ELSE
    LET s1 == cleanup_previous_state(s, ch) IN
    IF ~ch.cp THEN Outcome(s1, config, "500")
    ELSE
    LET s2 == [s1 EXCEPT !.confs = @ \cup {WG_INTERFACE},
                         !.liveConf = store[profile_name]] IN
    IF ~WgQuickUpOk(s2, WG_INTERFACE, ch.up) THEN Outcome(s2, config, "500")
    ELSE
    LET s3 == [s2 EXCEPT !.ifUp = @ \cup {WG_INTERFACE}]
        s4 == set_boot_persistence(s3, TRUE, ch.enable)
    IN  Outcome(s4, [config EXCEPT !.active_vpn = profile_name], "connected")

\* Faulty variant: the requested name is saved as active before the profile
\* file is looked for.
connect_vpn_saves_before_lookup(store, config, s, profile_name, ch) ==
    IF ~profile_exists(store, profile_name)
    THEN Outcome(s, [config EXCEPT !.active_vpn = profile_name], "404")
    ELSE
    LET s1 == cleanup_previous_state(s, ch) IN
    IF profile_name \notin DOMAIN store        \* read_text() raises
    THEN Outcome(s1, config, "500")
    ELSE IF ~ch.cp THEN Outcome(s1, config, "500")
    ELSE
    LET s2 == [s1 EXCEPT !.confs = @ \cup {WG_INTERFACE},
                         !.liveConf = store[profile_name]] IN
    IF ~WgQuickUpOk(s2, WG_INTERFACE, ch.up) THEN Outcome(s2, config, "500")
    ELSE
    LET s3 == [s2 EXCEPT !.ifUp = @ \cup {WG_INTERFACE}]
        s4 == set_boot_persistence(s3, TRUE, ch.enable)
        s5 == IF config.kill_switch_enabled
              THEN apply_kill_switch(s4, FALSE) ELSE s4
    IN  Outcome(s5, [config EXCEPT !.active_vpn = profile_name], "connected")

\* connect_vpn.  ch adds: ch.cp (the copy to wg0.conf succeeds), ch.up
\* (wg-quick up), ch.enable (systemctl enable).  chmod's outcome is ignored by
\* the code and the file mode is not part of the state.
connect_vpn(store, config, s, profile_name, ch) ==
    IF ~profile_exists(store, profile_name) THEN Outcome(s, config, "404")
    ELSE
    LET s1 == cleanup_previous_state(s, ch) IN
    IF profile_name \notin DOMAIN store        \* read_text() raises
    THEN Outcome(s1, config, "500")
    ELSE IF ~ch.cp THEN Outcome(s1, config, "500")
    ELSE
    LET s2 == [s1 EXCEPT !.confs = @ \cup {WG_INTERFACE},
                         !.liveConf = store[profile_name]] IN
    IF ~WgQuickUpOk(s2, WG_INTERFACE, ch.up) THEN Outcome(s2, config, "500")
    ELSE
    LET s3 == [s2 EXCEPT !.ifUp = @ \cup {WG_INTERFACE}]
        s4 == set_boot_persistence(s3, TRUE, ch.enable)
        s5 == IF config.kill_switch_enabled
              THEN apply_kill_switch(s4, FALSE) ELSE s4
    IN  Outcome(s5, [config EXCEPT !.active_vpn = profile_name], "connected")

\* Faulty variant: activeProfile is cleared and autostart disabled before the
\* bring-down is tried.
disconnect_vpn_clears_first(config, s, ch) ==
    IF ~(ch.show /\ WG_INTERFACE \in s.ifUp)
    THEN Outcome(s, config, "no_vpn_active")
    ELSE
    LET saved == [config EXCEPT !.active_vpn = None]
        s0 == set_boot_persistence(s, FALSE, ch.disable) IN
    IF ~WgQuickDownOk(s0, WG_INTERFACE, ch.down)
    THEN Outcome(s0, saved, "500")
    ELSE
    LET s1 == [s0 EXCEPT !.ifUp = @ \ {WG_INTERFACE}]
        s3 == IF saved.kill_switch_enabled
              THEN apply_kill_switch(s1, TRUE) ELSE s1
    IN  Outcome(s3, saved, "disconnected")

\* disconnect_vpn.  ch.show: `wg show wg0` succeeds; ch.down: wg-quick down;
\* ch.disable: systemctl disable.
disconnect_vpn(config, s, ch) ==
    IF ~(ch.show /\ WG_INTERFACE \in s.ifUp)
    THEN Outcome(s, config, "no_vpn_active")
    ELSE IF ~WgQuickDownOk(s, WG_INTERFACE, ch.down)
    THEN Outcome(s, config, "500")
    ELSE
    LET s1 == [s EXCEPT !.ifUp = @ \ {WG_INTERFACE}]
        s2 == set_boot_persistence(s1, FALSE, ch.disable)
        saved == [config EXCEPT !.active_vpn = None]
        s3 == IF saved.kill_switch_enabled
              THEN apply_kill_switch(s2, TRUE) ELSE s2
    IN  Outcome(s3, saved, "disconnected")

\* Faulty variant: enabling installs the reject rule also while a profile is
\* active.
toggle_kill_switch_blocks_active(config, s, enabled) ==
    LET saved == [config EXCEPT !.kill_switch_enabled = enabled]
    IN  Outcome(apply_kill_switch(s, enabled), saved, "success")

\* toggle_kill_switch
toggle_kill_switch(config, s, enabled) ==
    LET saved == [config EXCEPT !.kill_switch_enabled = enabled]
        s1 == IF enabled /\ saved.active_vpn = None
              THEN apply_kill_switch(s, TRUE)
              ELSE IF ~enabled THEN apply_kill_switch(s, FALSE)
              ELSE s
    IN  Outcome(s1, saved, "success")

\* list_vpn_configs: one entry per profile file; ok tells whether
\* `wg show wg0` succeeded, and the interface counts as active when it did and
\* printed something.
list_vpn_configs(store, config, s, ok) ==
    LET is_active == ok /\ WG_INTERFACE \in s.ifUp
    IN  {[name |-> n,
          active |-> is_active /\ config.active_vpn = n,
          is_current |-> config.active_vpn = n] : n \in DOMAIN store}

\* The store without the file of one profile (profile_file.unlink()).
Unlink(store, name) == [n \in DOMAIN store \ {name} |-> store[n]]

\* What delete_vpn_profile leaves: the profile store and the HTTP status.
Deleted(store, status) == [store |-> store, status |-> status]

\* Faulty variant: the active profile is not protected.
delete_vpn_profile_unguarded(store, config, name) ==
    IF name \notin DOMAIN store THEN Deleted(store, "404")
    ELSE Deleted(Unlink(store, name), "success")

\* delete_vpn_profile
delete_vpn_profile(store, config, name) ==
    IF name \notin DOMAIN store THEN Deleted(store, "404")
    ELSE IF config.active_vpn = name THEN Deleted(store, "400")
    ELSE Deleted(Unlink(store, name), "success")

\* name.replace("/", "").replace("\\", "").replace("..", "") on the names
\* of the model
sanitize(name) ==
    CASE name = "../siteA" -> "siteA"
      [] name = "site/C" -> "siteC"
      [] name = "../.." -> ""
      [] OTHER -> name

\* "[Interface]" in config_content, "[Peer]" in config_content, on the
\* contents of the model
has_interface(config_content) ==
    config_content \in {"contentA", "contentB", "contentC", "interface_only"}

has_peer(config_content) ==
    config_content \in {"contentA", "contentB", "contentC", "peer_only"}

\* What add_vpn_profile leaves: the profile store and the HTTP status.
Added(store, status) == [store |-> store, status |-> status]

\* profile_file.write_text(config_content)
WriteText(store, name, config_content) ==
    [n \in DOMAIN store \cup {name} |->
        IF n = name THEN config_content ELSE store[n]]

\* Faulty variant: an existing profile is overwritten.
add_vpn_profile_overwrites(store, name_in, config_content) ==
    LET name == sanitize(name_in) IN
    IF name = "" THEN Added(store, "400")
    ELSE IF ~has_interface(config_content) \/ ~has_peer(config_content)
    THEN Added(store, "400")
    ELSE Added(WriteText(store, name, config_content), "success")

\* add_vpn_profile
add_vpn_profile(store, name_in, config_content) ==
    LET name == sanitize(name_in) IN
    IF name = "" THEN Added(store, "400")
    ELSE IF profile_exists(store, name) THEN Added(store, "409")
    ELSE IF ~has_interface(config_content) \/ ~has_peer(config_content)
    THEN Added(store, "400")
    ELSE Added(WriteText(store, name, config_content), "success")

\* Every other interface that was up is removed and every other enabled unit
\* is disabled by the commands of this cleanup that succeeded.
CleanupComplete(s, ch) ==
    /\ (s.units \ {WG_INTERFACE}) \subseteq (s.confs \cap ch.disabled)
    /\ \A i \in s.ifUp \ {WG_INTERFACE} :
          \/ i \in s.confs \cap ch.stopped
          \/ ch.list /\ ((i \in ch.down /\ i \in s.confs) \/ i \in ch.del)

-----------------------------------------------------------------------------
(* Actions of the tunnel lifecycle and the kill switch *)

\* A call: the operation, its string argument, its boolean argument, the
\* outcome, and for a connect whether its cleanup removed all foreign state.
\* For ensure_infrastructure the boolean tells whether every command that can
\* fail succeeded, and the string whether the call directly follows another
\* such call ("again") or not ("first").
Call(op, arg, flag, status, clean) ==
    [op |-> op, arg |-> arg, flag |-> flag, status |-> status, clean |-> clean]

NoCall == Call("none", None, FALSE, "none", FALSE)

Finish(out, call) ==
    /\ sys' = out.s
    /\ policy' = out.p
    /\ result' = call
    /\ file' = WholeFile(out.p)
    /\ UNCHANGED calls

FinishTunnel(out, call) == Finish(out, call) /\ prev' = result

\* The outcomes of the interface listing and of the two teardown commands
\* that differ in effect: a failed listing tears nothing down, and the forced
\* deletion is only tried where the graceful teardown failed.
TeardownChoices(s) ==
    {[list |-> FALSE, down |-> {}, del |-> {}]} \cup
    UNION {{[list |-> TRUE, down |-> d, del |-> e] : e \in SUBSET (s.ifUp \ d)} :
              d \in SUBSET (s.ifUp \cap s.confs)}

\* The first command of the activation that fails: the copy, the bring-up,
\* the autostart enable, or none.
ActivationChoices == {"cp", "up", "enable", "none"}

\* Every combination of command outcomes a connect can meet in state s, as
\* the record connect_vpn takes.  The outcome of `systemctl disable` is told
\* apart only for an enabled unit: on any other unit it changes nothing.
ConnectChoices(s) ==
    {[disabled |-> disabled, stopped |-> stopped,
      list |-> tear.list, down |-> tear.down, del |-> tear.del,
      cp |-> fails # "cp", up |-> fails \notin {"cp", "up"},
      enable |-> fails = "none"] :
        disabled \in SUBSET (s.confs \cap s.units),
        stopped \in SUBSET (s.confs \cap LegacyNames \cap s.ifUp),
        tear \in TeardownChoices(s),
        fails \in ActivationChoices}

\* The same with the order in which the config files (glob) and the
\* interfaces up (ifaces) are listed, as the record the step view of
\* connect_vpn takes.
Listed(ch, glob, ifaces) ==
    [disabled |-> ch.disabled, stopped |-> ch.stopped,
     list |-> ch.list, down |-> ch.down, del |-> ch.del,
     cp |-> ch.cp, up |-> ch.up, enable |-> ch.enable,
     glob |-> glob, ifaces |-> ifaces]

Connect ==
    \E profile_name \in RequestNames,
       disabled \in SUBSET (sys.confs \cap sys.units),
       stopped \in SUBSET (sys.confs \cap LegacyNames \cap sys.ifUp),
       tear \in TeardownChoices(sys),
       fails \in ActivationChoices :
        LET ch == [disabled |-> disabled, stopped |-> stopped,
                   list |-> tear.list, down |-> tear.down, del |-> tear.del,
                   cp |-> fails # "cp", up |-> fails \notin {"cp", "up"},
                   enable |-> fails = "none"]
            out == connect_vpn(profiles, load_config, sys, profile_name, ch)
        IN  /\ FinishTunnel(out, Call("connect", profile_name, FALSE, out.status,
                                CleanupComplete(sys, ch)))
            /\ UNCHANGED <<profiles, env, hist, issued>>

Disconnect ==
    \E show \in BOOLEAN, down \in BOOLEAN, disable \in BOOLEAN :
        LET ch == [show |-> show, down |-> down, disable |-> disable]
            out == disconnect_vpn(load_config, sys, ch)
        IN  /\ FinishTunnel(out, Call("disconnect", None, FALSE, out.status, FALSE))
            /\ UNCHANGED <<profiles, env, hist, issued>>

ToggleKillSwitch ==
    \E enabled \in BOOLEAN :
        LET out == toggle_kill_switch(load_config, sys, enabled)
        IN  /\ FinishTunnel(out, Call("kill_switch", None, enabled, out.status, FALSE))
            /\ UNCHANGED <<profiles, env, hist, issued>>

\* DELETE /profile/{name}
DeleteProfile ==
    \E name \in RequestNames :
        LET out == delete_vpn_profile(profiles, load_config, name)
        IN  /\ profiles' = out.store
            /\ result' = Call("delete_profile", name, FALSE, out.status, FALSE)
            /\ UNCHANGED <<policy, sys, env, hist, prev, issued, calls, file>>

\* Names and contents a POST /profile may carry.
AddNames == {"siteA", "siteC", "../siteA", "site/C", "../..", ""}

AddContents == {"contentC", "interface_only", "peer_only", "no_section"}

\* POST /profile
AddProfile ==
    \E name \in AddNames, config_content \in AddContents :
        LET out == add_vpn_profile(profiles, name, config_content)
        IN  /\ profiles' = out.store
            /\ result' = Call("add_profile", name,
                              has_interface(config_content)
                                /\ has_peer(config_content),
                              out.status, FALSE)
            /\ UNCHANGED <<policy, sys, env, hist, prev, issued, calls, file>>

-----------------------------------------------------------------------------
(* connect_vpn as the sequence of its steps *)

Step(t, arg) == [t |-> t, arg |-> arg]

\* The elements of a set in the order the listing gives them.
InOrder(S, listing) == SelectSeq(listing, LAMBDA x : x \in S)

\* for conf_file in wg_dir.glob("*.conf"): disable, then stop
RECURSIVE DisableAndStopEach(_)
DisableAndStopEach(names) ==
    IF names = <<>> THEN <<>>
    ELSE <<Step("systemctl_disable", Head(names)),
           Step("systemctl_stop", Head(names))>>
            \o DisableAndStopEach(Tail(names))

\* for iface in interfaces: wg-quick down, and ip link delete if that failed
RECURSIVE TearDownEach(_, _, _)
TearDownEach(s, ifaces, ch) ==
    IF ifaces = <<>> THEN <<>>
    ELSE <<Step("wg_quick_down", Head(ifaces))>>
            \o (IF WgQuickDownOk(s, Head(ifaces), Head(ifaces) \in ch.down)
                THEN <<>> ELSE <<Step("ip_link_delete", Head(ifaces))>>)
            \o TearDownEach(s, Tail(ifaces), ch)

\* Faulty variant: the forced deletion follows every graceful teardown,
\* failed or not.
RECURSIVE TearDownEach_always_delete(_)
TearDownEach_always_delete(ifaces) ==
    IF ifaces = <<>> THEN <<>>
    ELSE <<Step("wg_quick_down", Head(ifaces)),
           Step("ip_link_delete", Head(ifaces))>>
            \o TearDownEach_always_delete(Tail(ifaces))

cleanup_previous_state_steps_always_delete(s, ch) ==
    LET s1 == [s EXCEPT !.units = @ \ (s.confs \cap ch.disabled),
                        !.ifUp = @ \ (s.confs \cap LegacyNames \cap ch.stopped)]
        found == IF ch.list THEN s1.ifUp ELSE {}
    IN  DisableAndStopEach(InOrder(s.confs, ch.glob))
            \o <<Step("wg_show_interfaces", "-")>>
            \o TearDownEach_always_delete(InOrder(found, ch.ifaces))

\* cleanup_previous_state, as the commands it runs in state s; ch.glob is
\* the order of the config files, ch.ifaces that of the interfaces listed.
cleanup_previous_state_steps(s, ch) ==
    LET s1 == [s EXCEPT !.units = @ \ (s.confs \cap ch.disabled),
                        !.ifUp = @ \ (s.confs \cap LegacyNames \cap ch.stopped)]
        found == IF ch.list THEN s1.ifUp ELSE {}
    IN  DisableAndStopEach(InOrder(s.confs, ch.glob))
            \o <<Step("wg_show_interfaces", "-")>>
            \o TearDownEach(s1, InOrder(found, ch.ifaces), ch)

\* Faulty variant: the policy is saved before the kill-switch rule is lifted.
connect_vpn_steps_save_first(store, config, s, profile_name, ch) ==
    IF ~profile_exists(store, profile_name) THEN <<>>
    ELSE
    LET s1 == cleanup_previous_state(s, ch)
        s2 == [s1 EXCEPT !.confs = @ \cup {WG_INTERFACE},
                         !.liveConf = store[profile_name]]
    IN  <<Step("load_config", "-")>>
            \o cleanup_previous_state_steps(s, ch)
            \o <<Step("read_text", profile_name), Step("cp", profile_name)>>
            \o (IF ~ch.cp THEN <<>>
                ELSE <<Step("chmod", WG_INTERFACE),
                       Step("wg_quick_up", WG_INTERFACE)>>
                    \o (IF ~WgQuickUpOk(s2, WG_INTERFACE, ch.up) THEN <<>>
                        ELSE <<Step("systemctl_enable", WG_INTERFACE),
                               Step("save_config", profile_name)>>
                            \o (IF config.kill_switch_enabled
                                THEN <<Step("iptables_delete_killswitch", "-")>>
                                ELSE <<>>)))

\* connect_vpn, as the steps it takes after the existence check, up to the
\* step that raises
connect_vpn_steps(store, config, s, profile_name, ch) ==
    IF ~profile_exists(store, profile_name) THEN <<>>
    ELSE
    LET s1 == cleanup_previous_state(s, ch)
        s2 == [s1 EXCEPT !.confs = @ \cup {WG_INTERFACE},
                         !.liveConf = store[profile_name]]
    IN  <<Step("load_config", "-")>>
            \o cleanup_previous_state_steps(s, ch)
            \o <<Step("read_text", profile_name), Step("cp", profile_name)>>
            \o (IF ~ch.cp THEN <<>>
                ELSE <<Step("chmod", WG_INTERFACE),
                       Step("wg_quick_up", WG_INTERFACE)>>
                    \o (IF ~WgQuickUpOk(s2, WG_INTERFACE, ch.up) THEN <<>>
                        ELSE <<Step("systemctl_enable", WG_INTERFACE)>>
                            \o (IF config.kill_switch_enabled
                                THEN <<Step("iptables_delete_killswitch", "-")>>
                                ELSE <<>>)
                            \o <<Step("save_config", profile_name)>>))

\* apply_kill_switch, as the commands it runs
apply_kill_switch_steps(block) ==
    IF block
    THEN <<Step("iptables_delete_killswitch", "-"),
           Step("iptables_insert_killswitch", "-")>>
    ELSE <<Step("iptables_delete_killswitch", "-")>>

\* Faulty variant: the reject rule is installed before the interface is
\* brought down.
disconnect_vpn_steps_block_first(config, s, ch) ==
    <<Step("load_config", "-"), Step("wg_show", WG_INTERFACE)>>
        \o (IF ~(ch.show /\ WG_INTERFACE \in s.ifUp) THEN <<>>
            ELSE (IF config.kill_switch_enabled
                  THEN apply_kill_switch_steps(TRUE) ELSE <<>>)
                \o <<Step("wg_quick_down", WG_INTERFACE)>>
                \o (IF ~WgQuickDownOk(s, WG_INTERFACE, ch.down) THEN <<>>
                    ELSE <<Step("systemctl_disable_wg0", WG_INTERFACE),
                           Step("save_config", None)>>))

\* disconnect_vpn, as the steps it takes, up to the step that returns or
\* raises
disconnect_vpn_steps(config, s, ch) ==
    <<Step("load_config", "-"), Step("wg_show", WG_INTERFACE)>>
        \o (IF ~(ch.show /\ WG_INTERFACE \in s.ifUp) THEN <<>>
            ELSE <<Step("wg_quick_down", WG_INTERFACE)>>
                \o (IF ~WgQuickDownOk(s, WG_INTERFACE, ch.down) THEN <<>>
                    ELSE <<Step("systemctl_disable_wg0", WG_INTERFACE),
                           Step("save_config", None)>>
                        \o (IF config.kill_switch_enabled
                            THEN apply_kill_switch_steps(TRUE) ELSE <<>>)))

\* The OS state and the stored policy one step leaves.
RunStep(st, step, store, ch) ==
    CASE step.t = "systemctl_disable" ->
            [st EXCEPT !.s.units =
                IF step.arg \in ch.disabled THEN @ \ {step.arg} ELSE @]
      [] step.t = "systemctl_stop" ->
            [st EXCEPT !.s.ifUp =
                IF step.arg \in LegacyNames \cap ch.stopped
                THEN @ \ {step.arg} ELSE @]
      [] step.t = "wg_quick_down" ->
            [st EXCEPT !.s.ifUp =
                IF WgQuickDownOk(st.s, step.arg, step.arg \in ch.down)
                THEN @ \ {step.arg} ELSE @]
      [] step.t = "ip_link_delete" ->
            [st EXCEPT !.s.ifUp =
                IF step.arg \in ch.del THEN @ \ {step.arg} ELSE @]
      [] step.t = "cp" ->
            IF ch.cp
            THEN [st EXCEPT !.s.confs = @ \cup {WG_INTERFACE},
                            !.s.liveConf = store[step.arg]]
            ELSE st
      [] step.t = "wg_quick_up" ->
            [st EXCEPT !.s.ifUp =
                IF WgQuickUpOk(st.s, step.arg, ch.up)
                THEN @ \cup {step.arg} ELSE @]
      [] step.t = "systemctl_enable" ->
            [st EXCEPT !.s = set_boot_persistence(@, TRUE, ch.enable)]
      [] step.t = "iptables_delete_killswitch" ->
            [st EXCEPT !.s = apply_kill_switch(@, FALSE)]
      [] step.t = "iptables_insert_killswitch" ->
            [st EXCEPT !.s.forward = IptInsertFirst(@, KILLSWITCH)]
      [] step.t = "systemctl_disable_wg0" ->
            [st EXCEPT !.s = set_boot_persistence(@, FALSE, ch.disable)]
      [] step.t = "save_config" ->
            [st EXCEPT !.p.active_vpn = step.arg]
      [] OTHER -> st

RECURSIVE RunSteps(_, _, _, _)
RunSteps(st, steps, store, ch) ==
    IF steps = <<>> THEN st
    ELSE RunSteps(RunStep(st, Head(steps), store, ch), Tail(steps), store, ch)

\* The states a call passes through: before its first step and after each.
RECURSIVE StatesOf(_, _, _, _)
StatesOf(st, steps, store, ch) ==
    IF steps = <<>> THEN <<st>>
    ELSE <<st>> \o StatesOf(RunStep(st, Head(steps), store, ch), Tail(steps),
                            store, ch)

-----------------------------------------------------------------------------
(* routing.py: bypass infrastructure and device routing *)

\* ip rule: packets carrying the bypass mark look up the bypass table.
FWMARK_RULE == [t |-> "FWMARK_LOOKUP", ip |-> "-"]

\* nat POSTROUTING -o eth0 -m mark --mark <table> -j MASQUERADE
MASQUERADE == [t |-> "MASQUERADE", ip |-> "-"]

\* default via GATEWAY_IP dev WAN_IFACE, in the bypass table
BYPASS_ROUTE == "default via 192.168.5.1 dev eth0"

\* mangle PREROUTING -i eth1 -s <ip> -j MARK
MarkSrc(ip) == [t |-> "MARK_SRC", ip |-> ip]

\* mangle PREROUTING -i eth1 -d <ip> -j MARK
MarkDst(ip) == [t |-> "MARK_DST", ip |-> ip]

\* FORWARD -i eth1 -o eth0 -s <ip> -j ACCEPT
AcceptOut(ip) == [t |-> "ACCEPT_OUT", ip |-> ip]

\* FORWARD -i eth0 -o eth1 -d <ip> -m state --state ESTABLISHED,RELATED -j ACCEPT
AcceptIn(ip) == [t |-> "ACCEPT_IN", ip |-> ip]

\* Faulty variant: an `ip rule add` that inserts a rule equal to an existing one.
IpRuleAdd_appends(rules, rule) == Append(rules, rule)

\* ip rule add <selector> lookup <table> priority <n>: the kernel refuses a
\* rule equal to an existing one (same selector, table and priority) with
\* "File exists"; run_command returns the failure and the caller ignores it.
IpRuleAdd(rules, rule) ==
    IF Count(rules, rule) > 0 THEN rules ELSE Append(rules, rule)

\* Faulty variant: the fwmark rule is added without the presence check and
\* without the fixed priority, so that the kernel takes it as a new rule.
ensure_always_adds_rule(s, ch) ==
    LET s1 == IF ch.route THEN [s EXCEPT !.route = BYPASS_ROUTE] ELSE s
        s2 == [s1 EXCEPT !.rules = Append(@, FWMARK_RULE)]
    IN  [s2 EXCEPT !.nat = IptAppend(IptDelete(@, MASQUERADE), MASQUERADE)]

\* ensure_bypass_infrastructure.  ch.route: `ip route replace` succeeds;
\* ch.show: `ip rule show` succeeds.  The fingerprint is searched in whatever
\* the listing returned: the rule list on success, the error text on failure.
\* When it is not found `ip rule add ... priority 1` runs, which the kernel
\* refuses if the rule is there; iptables follows its semantics.
ensure_bypass_infrastructure(s, ch) ==
    LET s1 == IF ch.route THEN [s EXCEPT !.route = BYPASS_ROUTE] ELSE s
        fingerprint_in_output == ch.show /\ Count(s1.rules, FWMARK_RULE) > 0
        s2 == IF ~fingerprint_in_output
              THEN [s1 EXCEPT !.rules = IpRuleAdd(@, FWMARK_RULE)]
              ELSE s1
    IN  [s2 EXCEPT !.nat = IptAppend(IptDelete(@, MASQUERADE), MASQUERADE)]

\* str.lower() on the MAC strings of the model
to_lower(mac) ==
    CASE mac = "AA:BB:CC:DD:EE:FF" -> "aa:bb:cc:dd:ee:ff"
      [] OTHER -> mac

\* mac.replace('%3A', ':').replace('%3a', ':')
url_decode(mac) ==
    CASE mac = "AA%3ABB%3ACC%3ADD%3AEE%3AFF" -> "AA:BB:CC:DD:EE:FF"
      [] OTHER -> mac

\* The scan of `arp -n`: the address of the row that contains the MAC,
\* compared in lower case; None when no row does.  table maps a hardware
\* address to the IP of its row, or to None when it has no row.
arp_lookup(table, mac) ==
    LET rows == {h \in DOMAIN table :
                    table[h] # None /\ to_lower(mac) = to_lower(h)}
    IN  IF rows = {} THEN None ELSE table[CHOOSE h \in rows : TRUE]

DeleteDeviceRules(s, ip) ==
    [s EXCEPT !.mangle = IptDelete(@, MarkSrc(ip)),
              !.forward = IptDelete(IptDelete(@, AcceptOut(ip)), AcceptIn(ip))]

AddDeviceRules(s, ip) ==
    [s EXCEPT !.mangle = IptAppend(@, MarkSrc(ip)),
              !.forward = IptAppend(IptAppend(@, AcceptOut(ip)), AcceptIn(ip))]

\* apply_device_routing.  ch.arp: `arp -n` succeeds.  Returns the OS state and
\* the IP the rules were applied for (None when the call returned early).
\* The route-cache flush and the conntrack deletion change no rule.
Applied(s, ip) == [s |-> s, ip |-> ip]

\* Faulty variant: enabling adds the rules without deleting old ones first.
apply_device_routing_no_delete(s, table, mac, bypass, ch) ==
    LET ip == arp_lookup(table, mac) IN
    IF ~ch.arp \/ ip = None THEN Applied(s, None)
    ELSE IF bypass
    THEN Applied(AddDeviceRules(ensure_bypass_infrastructure(s, ch), ip), ip)
    ELSE Applied(DeleteDeviceRules(s, ip), ip)

\* Faulty variant: the infrastructure is ensured before the ARP lookup.
apply_device_routing_ensure_first(s, table, mac, bypass, ch) ==
    LET ip == arp_lookup(table, mac)
        s0 == IF bypass THEN ensure_bypass_infrastructure(s, ch) ELSE s IN
    IF ~ch.arp \/ ip = None THEN Applied(s0, None)
    ELSE IF bypass
    THEN Applied(AddDeviceRules(DeleteDeviceRules(s0, ip), ip), ip)
    ELSE Applied(DeleteDeviceRules(s0, ip), ip)

\* Faulty variant: a disable removes the rules of every device address, not
\* only of the address in the neighbor row.
apply_device_routing_disable_all(s, table, mac, bypass, ch) ==
    IF ~ch.arp THEN Applied(s, None)
    ELSE
    LET ip == arp_lookup(table, mac) IN
    IF ip = None THEN Applied(s, None)
    ELSE IF bypass
    THEN LET s1 == ensure_bypass_infrastructure(s, ch)
         IN  Applied(AddDeviceRules(DeleteDeviceRules(s1, ip), ip), ip)
    ELSE Applied(DeleteDeviceRules(DeleteDeviceRules(s, "192.168.10.11"),
                                   "192.168.10.12"), ip)

apply_device_routing(s, table, mac, bypass, ch) ==
    IF ~ch.arp THEN Applied(s, None)
    ELSE
    LET ip == arp_lookup(table, mac) IN
    IF ip = None THEN Applied(s, None)
    ELSE IF bypass
    THEN LET s1 == ensure_bypass_infrastructure(s, ch)
         IN  Applied(AddDeviceRules(DeleteDeviceRules(s1, ip), ip), ip)
    ELSE Applied(DeleteDeviceRules(s, ip), ip)

-----------------------------------------------------------------------------
(* device_manager.py *)

\* /var/lib/misc/dnsmasq.leases as list_devices parses it
DhcpLeases ==
    << [mac |-> "aa:bb:cc:dd:ee:ff", ip |-> "192.168.10.11"],
       [mac |-> "11:22:33:44:55:66", ip |-> "192.168.10.12"] >>

\* Faulty variant: the MACs are compared as written, not in lower case.
FindMac_case_sensitive(seq, mac) ==
    LET hits == {i \in 1..Len(seq) : seq[i].mac = mac}
    IN  IF hits = {} THEN 0 ELSE CHOOSE i \in hits : \A j \in hits : i <= j

\* next((x for x in seq if x.mac.lower() == mac.lower()), None) as an index,
\* 0 for None
FindMac(seq, mac) ==
    LET hits == {i \in 1..Len(seq) : to_lower(seq[i].mac) = to_lower(mac)}
    IN  IF hits = {} THEN 0 ELSE CHOOSE i \in hits : \A j \in hits : i <= j

Device(mac, ip, bypass) == [mac |-> mac, ip |-> ip, bypass_vpn |-> bypass]

\* Faulty variant: a MAC that is neither saved nor leased is saved all the
\* same.
set_device_bypass_saves_unknown(config, s, table, mac_in, bypass, ch) ==
    LET mac == url_decode(mac_in)
        i == FindMac(config.devices, mac)
        l == FindMac(DhcpLeases, mac)
        saved ==
            IF i # 0
            THEN [config EXCEPT !.devices[i].bypass_vpn = bypass]
            ELSE [config EXCEPT !.devices =
                    Append(@, Device(mac, IF l = 0 THEN None ELSE DhcpLeases[l].ip,
                                     bypass))]
        applied == apply_device_routing(s, table, mac, bypass, ch)
    IN  [out |-> Outcome(applied.s, saved, "updated"), ip |-> applied.ip]

\* set_device_bypass: returns the outcome and the IP routing was applied for.
set_device_bypass(config, s, table, mac_in, bypass, ch) ==
    LET mac == url_decode(mac_in)
        i == FindMac(config.devices, mac)
        l == FindMac(DhcpLeases, mac)
    IN  IF i = 0 /\ l = 0
        THEN [out |-> Outcome(s, config, "404"), ip |-> None]
        ELSE
        LET saved ==
                IF i # 0
                THEN [config EXCEPT !.devices[i].bypass_vpn = bypass]
                ELSE [config EXCEPT !.devices =
                        Append(@, Device(mac, DhcpLeases[l].ip, bypass))]
            applied == apply_device_routing(s, table, mac, bypass, ch)
        IN  [out |-> Outcome(applied.s, saved, "updated"), ip |-> applied.ip]

\* set_device_bypass up to its save_config: the status and the document it
\* writes, computed from the copy load_config returned.
set_device_bypass_update(config, mac_in, bypass) ==
    LET mac == url_decode(mac_in)
        i == FindMac(config.devices, mac)
        l == FindMac(DhcpLeases, mac)
    IN  IF i # 0
        THEN [status |-> "updated",
              config |-> [config EXCEPT !.devices[i].bypass_vpn = bypass]]
        ELSE IF l # 0
        THEN [status |-> "updated",
              config |-> [config EXCEPT !.devices =
                            Append(@, Device(mac, DhcpLeases[l].ip, bypass))]]
        ELSE [status |-> "404", config |-> config]

\* save_config: the stored document after the call.  The file is opened for
\* writing and the whole document is dumped, whatever was stored.
save_config(stored, config) == config

-----------------------------------------------------------------------------
(* routing.py apply_domain_bypass, domain_manager.py *)

\* What `host <domain>` returned: whether it succeeded and the addresses of
\* its "has address" lines, in order.
HostResult(ok, ips) == [ok |-> ok, ips |-> ips]

RECURSIVE MarkEach(_, _)
MarkEach(mangle, ips) ==
    IF ips = <<>> THEN mangle
    ELSE MarkEach(IptAppend(IptDelete(mangle, MarkDst(Head(ips))), MarkDst(Head(ips))),
                  Tail(ips))

RECURSIVE UnmarkEach(_, _)
UnmarkEach(mangle, ips) ==
    IF ips = <<>> THEN mangle
    ELSE UnmarkEach(IptDelete(mangle, MarkDst(Head(ips))), Tail(ips))

\* Faulty variant: removal deletes every destination mark rule, not the re-resolved ones.
apply_domain_bypass_unmark_all(s, answer, enable, ch) ==
    IF ~answer.ok THEN s
    ELSE IF enable
    THEN LET s1 == IF answer.ips # <<>>
                   THEN ensure_bypass_infrastructure(s, ch) ELSE s
         IN  [s1 EXCEPT !.mangle = MarkEach(@, answer.ips)]
    ELSE [s EXCEPT !.mangle = SelectSeq(@, LAMBDA r : r.t # "MARK_DST")]

\* Faulty variant: the infrastructure is ensured before the domain is
\* resolved.
apply_domain_bypass_ensure_first(s, answer, enable, ch) ==
    IF enable
    THEN LET s1 == ensure_bypass_infrastructure(s, ch)
         IN  IF ~answer.ok THEN s1
             ELSE [s1 EXCEPT !.mangle = MarkEach(@, answer.ips)]
    ELSE IF answer.ok
         THEN [s EXCEPT !.mangle = UnmarkEach(@, answer.ips)]
         ELSE s

\* Faulty variant: the removal path ensures the infrastructure as well.
apply_domain_bypass_ensure_on_remove(s, answer, enable, ch) ==
    IF enable
    THEN IF ~answer.ok THEN s
         ELSE LET s1 == IF answer.ips # <<>>
                        THEN ensure_bypass_infrastructure(s, ch) ELSE s
              IN  [s1 EXCEPT !.mangle = MarkEach(@, answer.ips)]
    ELSE IF answer.ok
         THEN [ensure_bypass_infrastructure(s, ch) EXCEPT
                    !.mangle = UnmarkEach(@, answer.ips)]
         ELSE s

\* apply_domain_bypass.  answer is the result of `host` at call time.
apply_domain_bypass(s, answer, enable, ch) ==
    IF enable
    THEN IF ~answer.ok THEN s
         ELSE LET s1 == IF answer.ips # <<>>
                        THEN ensure_bypass_infrastructure(s, ch) ELSE s
              IN  [s1 EXCEPT !.mangle = MarkEach(@, answer.ips)]
    ELSE IF answer.ok
         THEN [s EXCEPT !.mangle = UnmarkEach(@, answer.ips)]
         ELSE s

DomainBypass(domain) == [domain |-> domain, enabled |-> TRUE]

InBypassList(config, domain) ==
    \E i \in 1..Len(config.domain_bypasses) :
        config.domain_bypasses[i].domain = domain

\* Faulty variant: the domain is appended without the uniqueness check.
add_domain_bypass_unchecked(config, s, domain, answer, ch) ==
    LET saved == [config EXCEPT !.domain_bypasses =
                                    Append(@, DomainBypass(domain))]
    IN  Outcome(apply_domain_bypass(s, answer, TRUE, ch), saved, "success")

\* add_domain_bypass
add_domain_bypass(config, s, domain, answer, ch) ==
    IF InBypassList(config, domain) THEN Outcome(s, config, "409")
    ELSE LET saved == [config EXCEPT !.domain_bypasses =
                                        Append(@, DomainBypass(domain))]
         IN  Outcome(apply_domain_bypass(s, answer, TRUE, ch), saved, "success")

\* remove_domain_bypass
remove_domain_bypass(config, s, domain, answer, ch) ==
    LET kept == SelectSeq(config.domain_bypasses, LAMBDA d : d.domain # domain)
    IN  IF Len(kept) = Len(config.domain_bypasses)
        THEN Outcome(s, config, "404")
        ELSE Outcome(apply_domain_bypass(s, answer, FALSE, ch),
                     [config EXCEPT !.domain_bypasses = kept], "success")

\* The kernel commands a domain-bypass call issues, in order.  `host` only
\* asks the resolver and is not among them.
ENSURE_INFRA == [t |-> "ENSURE_INFRASTRUCTURE", ip |-> "-"]

FLUSH_CACHE == [t |-> "ROUTE_FLUSH_CACHE", ip |-> "-"]

DelMarkDst(ip) == [t |-> "DELETE_MARK_DST", ip |-> ip]

AddMarkDst(ip) == [t |-> "APPEND_MARK_DST", ip |-> ip]

RECURSIVE MarkEachCommands(_)
MarkEachCommands(ips) ==
    IF ips = <<>> THEN <<>>
    ELSE <<DelMarkDst(Head(ips)), AddMarkDst(Head(ips))>>
            \o MarkEachCommands(Tail(ips))

RECURSIVE UnmarkEachCommands(_)
UnmarkEachCommands(ips) ==
    IF ips = <<>> THEN <<>>
    ELSE <<DelMarkDst(Head(ips))>> \o UnmarkEachCommands(Tail(ips))

\* Faulty variant: the enabling branch flushes before it adds the rules.
apply_domain_bypass_commands_flush_first(answer, enable) ==
    IF enable
    THEN IF ~answer.ok THEN <<>>
         ELSE (IF answer.ips # <<>> THEN <<ENSURE_INFRA>> ELSE <<>>)
                \o <<FLUSH_CACHE>> \o MarkEachCommands(answer.ips)
    ELSE (IF answer.ok THEN UnmarkEachCommands(answer.ips) ELSE <<>>)
            \o <<FLUSH_CACHE>>

\* apply_domain_bypass, as the sequence of kernel commands it issues.
apply_domain_bypass_commands(answer, enable) ==
    IF enable
    THEN IF ~answer.ok THEN <<>>
         ELSE (IF answer.ips # <<>> THEN <<ENSURE_INFRA>> ELSE <<>>)
                \o MarkEachCommands(answer.ips) \o <<FLUSH_CACHE>>
    ELSE (IF answer.ok THEN UnmarkEachCommands(answer.ips) ELSE <<>>)
            \o <<FLUSH_CACHE>>

\* add_domain_bypass and remove_domain_bypass, as the kernel commands issued.
add_domain_bypass_commands(config, domain, answer) ==
    IF InBypassList(config, domain) THEN <<>>
    ELSE apply_domain_bypass_commands(answer, TRUE)

remove_domain_bypass_commands(config, domain, answer) ==
    IF ~InBypassList(config, domain) THEN <<>>
    ELSE apply_domain_bypass_commands(answer, FALSE)

\* The kernel commands of apply_device_routing, one record per run_command.
DelMarkSrc(ip) == [t |-> "DELETE_MARK_SRC", ip |-> ip]

DelAcceptOut(ip) == [t |-> "DELETE_ACCEPT_OUT", ip |-> ip]

DelAcceptIn(ip) == [t |-> "DELETE_ACCEPT_IN", ip |-> ip]

AddMarkSrc(ip) == [t |-> "APPEND_MARK_SRC", ip |-> ip]

AddAcceptOut(ip) == [t |-> "APPEND_ACCEPT_OUT", ip |-> ip]

AddAcceptIn(ip) == [t |-> "APPEND_ACCEPT_IN", ip |-> ip]

\* conntrack -D -s <ip>
ConntrackDelete(ip) == [t |-> "CONNTRACK_DELETE", ip |-> ip]

\* Faulty variant: the mark rule is not deleted before it is added again.
DeleteDeviceCommands_accepts_only(ip) == <<DelAcceptOut(ip), DelAcceptIn(ip)>>

DeleteDeviceCommands(ip) == <<DelMarkSrc(ip), DelAcceptOut(ip), DelAcceptIn(ip)>>

AddDeviceCommands(ip) == <<AddMarkSrc(ip), AddAcceptOut(ip), AddAcceptIn(ip)>>

\* Faulty variant: the connection-tracking entries are dropped before the
\* rules are changed.
apply_device_routing_commands_conntrack_first(table, mac, bypass, arp_ok) ==
    IF ~arp_ok THEN <<>>
    ELSE
    LET ip == arp_lookup(table, mac) IN
    IF ip = None THEN <<>>
    ELSE <<ConntrackDelete(ip)>>
            \o (IF bypass
                THEN <<ENSURE_INFRA>> \o DeleteDeviceCommands(ip)
                        \o AddDeviceCommands(ip)
                ELSE DeleteDeviceCommands(ip))
            \o <<FLUSH_CACHE>>

\* apply_device_routing, as the sequence of kernel commands it issues after
\* `arp -n`.  No result of these commands is looked at, so the sequence does
\* not depend on which of them fail.
apply_device_routing_commands(table, mac, bypass, arp_ok) ==
    IF ~arp_ok THEN <<>>
    ELSE
    LET ip == arp_lookup(table, mac) IN
    IF ip = None THEN <<>>
    ELSE (IF bypass
          THEN <<ENSURE_INFRA>> \o DeleteDeviceCommands(ip)
                  \o AddDeviceCommands(ip)
          ELSE DeleteDeviceCommands(ip))
            \o <<FLUSH_CACHE, ConntrackDelete(ip)>>

\* set_device_bypass, as the kernel commands issued.
set_device_bypass_commands(config, table, mac_in, bypass, arp_ok) ==
    LET mac == url_decode(mac_in) IN
    IF FindMac(config.devices, mac) = 0 /\ FindMac(DhcpLeases, mac) = 0
    THEN <<>>
    ELSE apply_device_routing_commands(table, mac, bypass, arp_ok)

\* The run_commands of ensure_bypass_infrastructure, one record each.
ROUTE_REPLACE == [t |-> "ROUTE_REPLACE", ip |-> "-"]

RULE_SHOW == [t |-> "RULE_SHOW", ip |-> "-"]

RULE_ADD == [t |-> "RULE_ADD_FWMARK", ip |-> "-"]

DEL_MASQUERADE == [t |-> "DELETE_MASQUERADE", ip |-> "-"]

ADD_MASQUERADE == [t |-> "APPEND_MASQUERADE", ip |-> "-"]

\* ensure_bypass_infrastructure, as the run_commands a call has ahead of it
\* when it enters; the `ip rule add` is skipped when the listing before it
\* shows the fingerprint (see Remaining).
ensure_bypass_infrastructure_commands ==
    <<ROUTE_REPLACE, RULE_SHOW, RULE_ADD, DEL_MASQUERADE, ADD_MASQUERADE>>

\* A command sequence with each ensure_bypass_infrastructure call replaced
\* by its run_commands.
RECURSIVE EachRunCommand(_)
EachRunCommand(cmds) ==
    IF cmds = <<>> THEN <<>>
    ELSE (IF Head(cmds) = ENSURE_INFRA
          THEN ensure_bypass_infrastructure_commands ELSE <<Head(cmds)>>)
            \o EachRunCommand(Tail(cmds))

\* The state one kernel command leaves.  The rule listing, the route-cache
\* flush and the conntrack deletion change no rule.  ch.route: the route
\* replace succeeds.
RunCommand(s, c, ch) ==
    CASE c.t = "ENSURE_INFRASTRUCTURE" -> ensure_bypass_infrastructure(s, ch)
      [] c.t = "ROUTE_REPLACE" ->
            IF ch.route THEN [s EXCEPT !.route = BYPASS_ROUTE] ELSE s
      [] c.t = "RULE_ADD_FWMARK" ->
            [s EXCEPT !.rules = IpRuleAdd(@, FWMARK_RULE)]
      [] c.t = "DELETE_MASQUERADE" ->
            [s EXCEPT !.nat = IptDelete(@, MASQUERADE)]
      [] c.t = "APPEND_MASQUERADE" ->
            [s EXCEPT !.nat = IptAppend(@, MASQUERADE)]
      [] c.t = "DELETE_MARK_DST" ->
            [s EXCEPT !.mangle = IptDelete(@, MarkDst(c.ip))]
      [] c.t = "APPEND_MARK_DST" ->
            [s EXCEPT !.mangle = IptAppend(@, MarkDst(c.ip))]
      [] c.t = "DELETE_MARK_SRC" ->
            [s EXCEPT !.mangle = IptDelete(@, MarkSrc(c.ip))]
      [] c.t = "APPEND_MARK_SRC" ->
            [s EXCEPT !.mangle = IptAppend(@, MarkSrc(c.ip))]
      [] c.t = "DELETE_ACCEPT_OUT" ->
            [s EXCEPT !.forward = IptDelete(@, AcceptOut(c.ip))]
      [] c.t = "APPEND_ACCEPT_OUT" ->
            [s EXCEPT !.forward = IptAppend(@, AcceptOut(c.ip))]
      [] c.t = "DELETE_ACCEPT_IN" ->
            [s EXCEPT !.forward = IptDelete(@, AcceptIn(c.ip))]
      [] c.t = "APPEND_ACCEPT_IN" ->
            [s EXCEPT !.forward = IptAppend(@, AcceptIn(c.ip))]
      [] OTHER -> s

\* The commands a call has ahead of it after the first of cmds ran in state
\* s: the `ip rule add` is skipped when the listing (ch.show: it succeeds)
\* printed the fingerprint of the fwmark rule.
Remaining(s, cmds, ch) ==
    IF Head(cmds) = RULE_SHOW /\ ch.show /\ Count(s.rules, FWMARK_RULE) > 0
    THEN Tail(Tail(cmds))
    ELSE Tail(cmds)

\* The state the commands of one call leave when no other call runs a
\* command in between.
RECURSIVE RunAlone(_, _, _)
RunAlone(s, cmds, ch) ==
    IF cmds = <<>> THEN s
    ELSE RunAlone(RunCommand(s, Head(cmds), ch), Remaining(s, cmds, ch), ch)

\* The state a sequence of kernel commands leaves.
RECURSIVE RunCommands(_, _, _)
RunCommands(s, cmds, ch) ==
    IF cmds = <<>> THEN s
    ELSE RunCommands(RunCommand(s, Head(cmds), ch), Tail(cmds), ch)

-----------------------------------------------------------------------------
(* Environment and initial states *)

\* Hardware addresses the neighbor table may hold (arp -n prints lower case).
HwAddrs == {"aa:bb:cc:dd:ee:ff", "11:22:33:44:55:66"}

DevIps == {"192.168.10.11", "192.168.10.12"}

Domains == {"example.com", "cdn.example.net"}

\* Addresses a domain may resolve to, in the order `host` prints them.
DstIps == <<"203.0.113.1", "203.0.113.2", "203.0.113.3">>

\* The most address records one answer of `host` carries.
MaxAddrs == 2

DnsFail == HostResult(FALSE, <<>>)

\* The addresses of DstIps picked by S, in order.
AnswerOf(S) ==
    LET F[i \in 0..Len(DstIps)] ==
            IF i = 0 THEN <<>>
            ELSE IF i \in S THEN Append(F[i - 1], DstIps[i]) ELSE F[i - 1]
    IN  HostResult(TRUE, F[Len(DstIps)])

DnsAnswers ==
    {DnsFail} \cup
    {AnswerOf(S) : S \in {T \in SUBSET (1..Len(DstIps)) : Cardinality(T) <= MaxAddrs}}

\* MAC strings a request may carry: upper case, lower case and URL-encoded
\* forms of one leased device, a second leased device, an unknown device.
MacInputs ==
    {"AA:BB:CC:DD:EE:FF", "aa:bb:cc:dd:ee:ff", "AA%3ABB%3ACC%3ADD%3AEE%3AFF",
     "11:22:33:44:55:66", "de:ad:be:ef:00:01"}

CleanSys ==
    [confs |-> {}, liveConf |-> None, ifUp |-> {}, units |-> {},
     forward |-> <<>>, mangle |-> <<>>, nat |-> <<>>, rules |-> <<>>,
     route |-> "none"]

QuietEnv == [arp |-> [h \in HwAddrs |-> None], dns |-> [d \in Domains |-> DnsFail]]

\* The most set_device_bypass requests the server receives in one run.
MaxRequests == 3

\* The requests, each on a connection of its own, numbered as received.
CallIds == 1..MaxRequests

\* A request the server has not received yet.  met: the requests that were
\* received and not yet answered when this one was received.
IdleCall ==
    [pc |-> "idle", mac |-> None, bypass |-> FALSE, config |-> RouterConfig,
     cmds |-> <<>>, status |-> "none", met |-> {}]

InitCommon ==
    /\ profiles = StoredProfiles
    /\ policy = RouterConfig
    /\ file = WholeFile(RouterConfig)
    /\ result = NoCall
    /\ prev = NoCall
    /\ hist = [ip \in DevIps |-> "none"]
    /\ issued = <<>>
    /\ calls = [c \in CallIds |-> IdleCall]

\* The tunnel controller starts with wg0 never activated; the retired scripts
\* may have left a config file, an enabled unit and an up interface.
Init ==
    /\ InitCommon
    /\ env = QuietEnv
    /\ \E confs \in SUBSET LegacyNames, ifUp \in SUBSET LegacyNames,
          units \in SUBSET LegacyNames :
          sys = [CleanSys EXCEPT !.confs = confs, !.ifUp = ifUp, !.units = units]

Next == Connect \/ Disconnect \/ ToggleKillSwitch

Spec == Init /\ [][Next]_vars

-----------------------------------------------------------------------------
(* The tunnel lifecycle together with profile deletion, from a host without
   legacy WireGuard state *)

InitProfile ==
    /\ InitCommon
    /\ env = QuietEnv
    /\ sys = CleanSys

NextProfile == Connect \/ Disconnect \/ DeleteProfile

SpecProfile == InitProfile /\ [][NextProfile]_vars

\* The same with profiles added as well.
NextStore == Connect \/ Disconnect \/ DeleteProfile \/ AddProfile

SpecStore == InitProfile /\ [][NextStore]_vars

-----------------------------------------------------------------------------
(* Device bypass and infrastructure: actions and specification *)

FwmarkRules(s) == Count(s.rules, FWMARK_RULE)

InitDevice ==
    /\ InitCommon
    /\ env = QuietEnv
    /\ sys = CleanSys

\* What hist records for an IP: "none" before any call resolved to it,
\* "enable" after one enable, "enable_again" after two or more enables in a
\* row, "disable" after a disable.
Applies(before, bypass) ==
    IF ~bypass THEN "disable"
    ELSE IF before \in {"enable", "enable_again"} THEN "enable_again"
    ELSE "enable"

\* The outcomes of a command to tell apart: both when the handler runs it,
\* one when it does not.
Outcomes(runs) == IF runs THEN BOOLEAN ELSE {TRUE}

\* Whether set_device_bypass gets past its 404: the MAC is saved or leased.
Known(config, mac_in) ==
    \/ FindMac(config.devices, url_decode(mac_in)) # 0
    \/ FindMac(DhcpLeases, url_decode(mac_in)) # 0

SetDeviceBypass ==
    \E mac \in MacInputs, bypass \in BOOLEAN :
    \E arp \in Outcomes(Known(policy, mac)) :
    \E route \in Outcomes(Known(policy, mac) /\ bypass /\ arp
                            /\ arp_lookup(env.arp, url_decode(mac)) # None),
       show \in Outcomes(Known(policy, mac) /\ bypass /\ arp
                            /\ arp_lookup(env.arp, url_decode(mac)) # None) :
        LET ch == [arp |-> arp, route |-> route, show |-> show]
            r == set_device_bypass(load_config, sys, env.arp, mac, bypass, ch)
        IN  /\ Finish(r.out, Call("set_device_bypass", mac, bypass,
                                  r.out.status, FALSE))
            /\ hist' = IF r.ip = None THEN hist
                       ELSE [hist EXCEPT ![r.ip] = Applies(@, bypass)]
            /\ issued' = set_device_bypass_commands(load_config, env.arp, mac,
                                                    bypass, arp)
            /\ UNCHANGED <<profiles, env, prev>>

EnsureInfrastructure ==
    \E route \in BOOLEAN, show \in BOOLEAN :
        LET ch == [route |-> route, show |-> show]
            s1 == ensure_bypass_infrastructure(sys, ch)
        IN  /\ Finish(Outcome(s1, policy, "done"),
                      Call("ensure_infrastructure",
                           IF result.op = "ensure_infrastructure" /\ result.flag
                           THEN "again" ELSE "first",
                           route /\ show, "done", FALSE))
            /\ UNCHANGED <<profiles, env, hist, prev, issued>>

\* The addresses a neighbor row may carry: the first device may move between
\* both addresses; the second device is off the network and known from its
\* lease only, so that no two rows carry the same address.
ArpAddrs(h) ==
    IF h = "aa:bb:cc:dd:ee:ff" THEN DevIps ELSE {}

\* The neighbor table gains, loses or changes the row of one address.
ArpChange ==
    \E h \in HwAddrs : \E ip \in ArpAddrs(h) \cup {None} :
        /\ env.arp[h] # ip
        /\ env' = [env EXCEPT !.arp[h] = ip]
        /\ result' = Call("arp_change", None, FALSE, "none", FALSE)
        /\ UNCHANGED <<profiles, policy, sys, hist, prev, issued, calls, file>>

NextDevice == SetDeviceBypass \/ ArpChange

SpecDevice == InitDevice /\ [][NextDevice]_vars

-----------------------------------------------------------------------------
(* The infrastructure on its own, from any kernel state that holds each of
   its rules at most once, among rules of other origin *)

\* Rules the controller does not manage: wg-quick's own policy rule and the
\* tunnel's masquerade rule.
OTHER_RULE == [t |-> "OTHER_LOOKUP", ip |-> "-"]

OTHER_NAT == [t |-> "OTHER_MASQUERADE", ip |-> "-"]

\* The sequences over two rules that hold each at most once.
AtMostOnce(a, b) == {<<>>, <<a>>, <<b>>, <<a, b>>, <<b, a>>}

InitInfra ==
    /\ InitCommon
    /\ env = QuietEnv
    /\ \E route \in {"none", "default via 10.0.0.1 dev eth0", BYPASS_ROUTE},
          rules \in AtMostOnce(FWMARK_RULE, OTHER_RULE),
          nat \in AtMostOnce(MASQUERADE, OTHER_NAT) :
          sys = [CleanSys EXCEPT !.route = route, !.rules = rules, !.nat = nat]

NextInfra == EnsureInfrastructure

SpecInfra == InitInfra /\ [][NextInfra]_vars

-----------------------------------------------------------------------------
(* Domain bypass: actions and specification *)

InitDomain ==
    /\ InitCommon
    /\ sys = CleanSys
    /\ \E answers \in [Domains -> DnsAnswers] :
          env = [QuietEnv EXCEPT !.dns = answers]

AddDomainBypass ==
    \E domain \in Domains :
    \E route \in Outcomes(env.dns[domain].ok), show \in Outcomes(env.dns[domain].ok) :
        LET ch == [route |-> route, show |-> show]
            out == add_domain_bypass(load_config, sys, domain, env.dns[domain], ch)
        IN  /\ Finish(out, Call("add_domain_bypass", domain, TRUE, out.status, FALSE))
            /\ issued' = add_domain_bypass_commands(load_config, domain,
                                                    env.dns[domain])
            /\ UNCHANGED <<profiles, env, hist, prev>>

RemoveDomainBypass ==
    \E domain \in Domains :
        LET ch == [route |-> TRUE, show |-> TRUE]
            out == remove_domain_bypass(load_config, sys, domain, env.dns[domain], ch)
        IN  /\ Finish(out, Call("remove_domain_bypass", domain, FALSE, out.status, FALSE))
            /\ issued' = remove_domain_bypass_commands(load_config, domain,
                                                       env.dns[domain])
            /\ UNCHANGED <<profiles, env, hist, prev>>

\* The answer `host` gives for one domain changes.
DnsChange ==
    \E domain \in Domains, answer \in DnsAnswers :
        /\ env.dns[domain] # answer
        /\ env' = [env EXCEPT !.dns[domain] = answer]
        /\ result' = Call("dns_change", None, FALSE, "none", FALSE)
        /\ issued' = <<>>
        /\ UNCHANGED <<profiles, policy, sys, hist, prev, calls, file>>

NextDomain == AddDomainBypass \/ RemoveDomainBypass \/ DnsChange

SpecDomain == InitDomain /\ [][NextDomain]_vars

-----------------------------------------------------------------------------
(* Domain bypass under a DNS mapping that never changes and in which every
   domain resolves to at least one address *)

ResolvingAnswers == {a \in DnsAnswers : a.ok /\ a.ips # <<>>}

InitStaticDns ==
    /\ InitCommon
    /\ sys = CleanSys
    /\ \E answers \in [Domains -> ResolvingAnswers] :
          env = [QuietEnv EXCEPT !.dns = answers]

NextStaticDns == AddDomainBypass \/ RemoveDomainBypass

SpecStaticDns == InitStaticDns /\ [][NextStaticDns]_vars

-----------------------------------------------------------------------------
(* Best-effort commands: the host after a reboot.  The saved policy lists a
   device and a domain with bypass enabled while the kernel holds none of
   their rules (netfilter rules do not survive a reboot), so every deletion a
   handler issues finds its rule absent. *)

RebootedPolicy ==
    [RouterConfig EXCEPT
        !.devices = <<Device("aa:bb:cc:dd:ee:ff", "192.168.10.11", TRUE)>>,
        !.domain_bypasses = <<DomainBypass("example.com")>>]

\* Both devices are on the network; one domain resolves, the other does not.
RebootedEnv ==
    [arp |-> [h \in HwAddrs |->
                IF h = "aa:bb:cc:dd:ee:ff" THEN "192.168.10.11"
                ELSE "192.168.10.12"],
     dns |-> [d \in Domains |->
                IF d = "example.com" THEN AnswerOf({1, 2}) ELSE DnsFail]]

InitBestEffort ==
    /\ profiles = StoredProfiles
    /\ policy = RebootedPolicy
    /\ file = WholeFile(RebootedPolicy)
    /\ result = NoCall
    /\ prev = NoCall
    /\ hist = [ip \in DevIps |-> "none"]
    /\ issued = <<>>
    /\ calls = [c \in CallIds |-> IdleCall]
    /\ env = RebootedEnv
    /\ sys = CleanSys

\* POST /devices/{mac}/bypass with bypass=false, for a saved device
DisableDeviceBypass ==
    \E mac \in {policy.devices[i].mac : i \in 1..Len(policy.devices)} :
    \E arp \in BOOLEAN :
        LET ch == [arp |-> arp, route |-> TRUE, show |-> TRUE]
            r == set_device_bypass(load_config, sys, env.arp, mac, FALSE, ch)
        IN  /\ Finish(r.out, Call("set_device_bypass", mac, FALSE,
                                  r.out.status, FALSE))
            /\ hist' = IF r.ip = None THEN hist
                       ELSE [hist EXCEPT ![r.ip] = Applies(@, FALSE)]
            /\ issued' = set_device_bypass_commands(load_config, env.arp, mac,
                                                    FALSE, arp)
            /\ UNCHANGED <<profiles, env, prev>>

NextBestEffort ==
    Connect \/ ToggleKillSwitch \/ DisableDeviceBypass \/ RemoveDomainBypass

SpecBestEffort == InitBestEffort /\ [][NextBestEffort]_vars

-----------------------------------------------------------------------------
(* Overlapping set_device_bypass requests.  main.py serves the application
   with one uvicorn.run: one process, one event loop.  The route handler is
   `async def` and neither it nor anything it calls awaits (the commands run
   through the blocking subprocess.run of run_command), so once the loop has
   entered a handler it runs it to its return before it enters another.
   Requests overlap in that a request is received while others are waiting
   or being handled.  A handler steps through each load_config, the open
   and the write of save_config, the `arp -n` lookup and then one
   run_command at a time, those of ensure_bypass_infrastructure included.
   The first device has a neighbor row, the second is known from its lease
   only, and `arp -n` succeeds, so that a request leaves exactly the rules
   its flag asks for. *)

OverlapMacs == {"aa:bb:cc:dd:ee:ff", "11:22:33:44:55:66"}

OverlapEnv ==
    [QuietEnv EXCEPT !.arp["aa:bb:cc:dd:ee:ff"] = "192.168.10.11"]

InitOverlap ==
    /\ InitCommon
    /\ env = OverlapEnv
    /\ sys = CleanSys

\* A request ends with an uncaught exception or an HTTPException.
Failed(c, status) ==
    /\ calls' = [calls EXCEPT ![c].pc = "done", ![c].status = status,
                              ![c].config = RouterConfig]
    /\ result' = Call("set_device_bypass", calls[c].mac, calls[c].bypass,
                      status, FALSE)

\* Faulty variant: the handler is a plain `def`, which the framework runs in
\* a thread pool, so a handler starts while another is running.
LoopFree_threadpool(c) == c \in CallIds

\* No handler is running: every other request is still to be received,
\* waiting for the loop, or answered.
LoopFree(c) ==
    \A d \in CallIds \ {c} : calls[d].pc \in {"idle", "pending", "done"}

\* The server receives POST /devices/{mac}/bypass; the request waits for the
\* event loop.  The requests are numbered in the order they are received.
Arrive(c) ==
    /\ calls[c].pc = "idle"
    /\ \A d \in CallIds : d < c => calls[d].pc # "idle"
    /\ \E mac \in OverlapMacs, bypass \in BOOLEAN :
        calls' = [calls EXCEPT ![c] =
                    [@ EXCEPT !.pc = "pending", !.mac = mac, !.bypass = bypass,
                              !.met = {d \in CallIds \ {c} :
                                         calls[d].pc \notin {"idle", "done"}}]]
    /\ UNCHANGED <<profiles, policy, sys, env, result, prev, hist, issued, file>>

\* The loop enters the handler of a waiting request: config = load_config().
\* json.load raises on a file that holds no document, nothing catches it and
\* the request ends with HTTP 500.
LoadConfig(c) ==
    /\ calls[c].pc = "pending"
    /\ LoopFree(c)
    /\ IF file.ok
       THEN /\ calls' = [calls EXCEPT ![c].pc = "loaded",
                                      ![c].config = load_config]
            /\ UNCHANGED result
       ELSE Failed(c, "500")
    /\ UNCHANGED <<profiles, policy, sys, env, prev, hist, issued, file>>

\* The MAC is not in the loaded copy: list_devices loads the policy once
\* more (500 on a file that holds no document) and reads the leases; 404
\* when the MAC is not leased.
ListDevices(c) ==
    /\ calls[c].pc = "loaded"
    /\ FindMac(calls[c].config.devices, url_decode(calls[c].mac)) = 0
    /\ IF ~file.ok THEN Failed(c, "500")
       ELSE IF FindMac(DhcpLeases, url_decode(calls[c].mac)) = 0
       THEN Failed(c, "404")
       ELSE /\ calls' = [calls EXCEPT ![c].pc = "listed"]
            /\ UNCHANGED result
    /\ UNCHANGED <<profiles, policy, sys, env, prev, hist, issued, file>>

\* The change to the loaded copy and the open(CONFIG_FILE, 'w') of
\* save_config, which empties the file.
OpenConfig(c) ==
    /\ \/ calls[c].pc = "listed"
       \/ /\ calls[c].pc = "loaded"
          /\ FindMac(calls[c].config.devices, url_decode(calls[c].mac)) # 0
    /\ calls' = [calls EXCEPT
                    ![c].pc = "opened",
                    ![c].config = set_device_bypass_update(
                                      @, calls[c].mac, calls[c].bypass).config]
    /\ file' = EmptyFile
    /\ UNCHANGED <<profiles, policy, sys, env, result, prev, hist, issued>>

\* json.dump and the close of save_config: the text reaches the file.
SaveConfig(c) ==
    /\ calls[c].pc = "opened"
    /\ calls' = [calls EXCEPT ![c].pc = "saved"]
    /\ policy' = save_config(policy, calls[c].config)
    /\ file' = WrittenOver(file, JsonLen(save_config(policy, calls[c].config)))
    /\ UNCHANGED <<profiles, sys, env, result, prev, hist, issued>>

\* apply_device_routing up to the end of the neighbor-table scan: what is
\* left to run is fixed by the row found.
ResolveIp(c) ==
    /\ calls[c].pc = "saved"
    /\ calls' = [calls EXCEPT ![c].pc = "routing",
                    ![c].cmds = EachRunCommand(apply_device_routing_commands(
                                    env.arp, url_decode(calls[c].mac),
                                    calls[c].bypass, TRUE))]
    /\ UNCHANGED <<profiles, policy, sys, env, result, prev, hist, issued, file>>

\* The next run_command of the request.
RunNextCommand(c) ==
    /\ calls[c].pc = "routing" /\ calls[c].cmds # <<>>
    /\ \E route \in Outcomes(Head(calls[c].cmds) = ROUTE_REPLACE),
          show \in Outcomes(Head(calls[c].cmds) = RULE_SHOW) :
        LET ch == [route |-> route, show |-> show]
        IN  /\ sys' = RunCommand(sys, Head(calls[c].cmds), ch)
            /\ calls' = [calls EXCEPT ![c].cmds = Remaining(sys, @, ch)]
    /\ UNCHANGED <<profiles, policy, env, result, prev, hist, issued, file>>

\* return {"status": "updated", ...}
ReturnUpdated(c) ==
    /\ calls[c].pc = "routing" /\ calls[c].cmds = <<>>
    /\ calls' = [calls EXCEPT ![c].pc = "done", ![c].status = "updated",
                              ![c].config = RouterConfig]
    /\ result' = Call("set_device_bypass", calls[c].mac, calls[c].bypass,
                      "updated", FALSE)
    /\ UNCHANGED <<profiles, policy, sys, env, prev, hist, issued, file>>

NextOverlap ==
    \E c \in CallIds :
        \/ Arrive(c)
        \/ LoadConfig(c)
        \/ ListDevices(c)
        \/ OpenConfig(c)
        \/ SaveConfig(c)
        \/ ResolveIp(c)
        \/ RunNextCommand(c)
        \/ ReturnUpdated(c)

SpecOverlap == InitOverlap /\ [][NextOverlap]_vars

-----------------------------------------------------------------------------
(* The kill switch and the device bypass on one FORWARD chain: the tunnel
   operations together with set_device_bypass, on a host without legacy
   state whose first device has a neighbor row *)

InitForward ==
    /\ InitCommon
    /\ env = OverlapEnv
    /\ sys = CleanSys

\* POST /devices/{mac}/bypass for the device with the neighbor row; arp -n
\* may fail, the infrastructure commands succeed.
SetLeasedDeviceBypass ==
    \E bypass \in BOOLEAN, arp \in BOOLEAN :
        LET mac == "aa:bb:cc:dd:ee:ff"
            ch == [arp |-> arp, route |-> TRUE, show |-> TRUE]
            r == set_device_bypass(load_config, sys, env.arp, mac, bypass, ch)
        IN  /\ Finish(r.out, Call("set_device_bypass", mac, bypass,
                                  r.out.status, FALSE))
            /\ hist' = IF r.ip = None THEN hist
                       ELSE [hist EXCEPT ![r.ip] = Applies(@, bypass)]
            /\ issued' = set_device_bypass_commands(load_config, env.arp, mac,
                                                    bypass, arp)
            /\ UNCHANGED <<profiles, env, prev>>

NextForward ==
    Connect \/ Disconnect \/ ToggleKillSwitch \/ SetLeasedDeviceBypass

SpecForward == InitForward /\ [][NextForward]_vars

-----------------------------------------------------------------------------
(* Device and domain bypass together.  The first device has a neighbor row or
   none; one domain resolves to one address, the other fails to resolve,
   resolves to no address or resolves to two addresses. *)

InitBypass ==
    /\ InitCommon
    /\ sys = CleanSys
    /\ \E row \in {None, "192.168.10.11"},
          answer \in {DnsFail, AnswerOf({}), AnswerOf({1, 2})} :
          env = [arp |-> [h \in HwAddrs |->
                            IF h = "aa:bb:cc:dd:ee:ff" THEN row ELSE None],
                 dns |-> [d \in Domains |->
                            IF d = "example.com" THEN AnswerOf({1})
                            ELSE answer]]

NextBypass == SetLeasedDeviceBypass \/ AddDomainBypass \/ RemoveDomainBypass

SpecBypass == InitBypass /\ [][NextBypass]_vars

-----------------------------------------------------------------------------
(* The kill switch and the device bypass on a kernel that already holds rules:
   netfilter rules outlive the controller, so the reject rule and the mark
   rule of the leased device may be there any number of times at start. *)

\* The most copies of one rule the kernel holds at start.
MaxPriorRules == 2

\* n copies of one rule
Copies(rule, n) == [i \in 1..n |-> rule]

InitKernel ==
    /\ InitCommon
    /\ env = OverlapEnv
    /\ \E rejects \in 0..MaxPriorRules, marks \in 0..MaxPriorRules :
          sys = [CleanSys EXCEPT
                    !.forward = Copies(KILLSWITCH, rejects),
                    !.mangle = Copies(MarkSrc("192.168.10.11"), marks)]

NextKernel == ToggleKillSwitch \/ SetLeasedDeviceBypass

SpecKernel == InitKernel /\ [][NextKernel]_vars

-----------------------------------------------------------------------------
(* main_old.py: the earlier single-file application.  It is an application of
   its own (its own FastAPI app and uvicorn entry point) over the same policy
   file, the same /etc/wireguard and the same kernel.  It keeps its tunnel
   configs in /etc/wireguard under their own names, and it routes a bypassed
   device or domain by a policy rule on the address (`ip rule ... from|to <ip>
   table 100 priority 100`) instead of a packet mark. *)

\* ip rule: packets from <ip> look up the bypass table, priority 100
SrcLookup(ip) == [t |-> "FROM_LOOKUP", ip |-> ip]

\* ip rule: packets to <ip> look up the bypass table, priority 100
DstLookup(ip) == [t |-> "TO_LOOKUP", ip |-> ip]

\* ip rule del <selector> table <table>: removes one matching rule, else
\* fails and changes nothing.
IpRuleDel(rules, rule) ==
    IF Count(rules, rule) = 0 THEN rules
    ELSE LET i == FirstIndex(rules, rule)
         IN  SubSeq(rules, 1, i - 1) \o SubSeq(rules, i + 1, Len(rules))

\* ip route del default table 100, then ip route add default via 192.168.5.1
\* dev eth0 table 100; ok: the add succeeds.
ReplaceBypassRoute(s, ok) ==
    [s EXCEPT !.route = IF ok THEN BYPASS_ROUTE ELSE "none"]

\* connect_vpn of main_old.py.  ch.list: `wg show interfaces` succeeds;
\* ch.down: interfaces whose `wg-quick down` succeeds; ch.up: `wg-quick up`
\* succeeds.  No config is copied, no interface is force-deleted and no
\* autostart unit is touched.
connect_vpn_old(config, s, config_name, ch) ==
    IF config_name \notin s.confs THEN Outcome(s, config, "404")
    ELSE
    LET running_interfaces == IF ch.list THEN s.ifUp ELSE {}
        s1 == [s EXCEPT !.ifUp = @ \ {i \in running_interfaces :
                                        WgQuickDownOk(s, i, i \in ch.down)}]
    IN  IF ~WgQuickUpOk(s1, config_name, ch.up) THEN Outcome(s1, config, "500")
        ELSE
        LET s2 == [s1 EXCEPT !.ifUp = @ \cup {config_name}]
            s3 == IF config.kill_switch_enabled
                  THEN apply_kill_switch(s2, FALSE) ELSE s2
        IN  Outcome(s3, [config EXCEPT !.active_vpn = config_name], "connected")

\* disconnect_vpn of main_old.py: decided by the saved active_vpn; ok:
\* `wg-quick down <active_vpn>` succeeds.
disconnect_vpn_old(config, s, ok) ==
    IF config.active_vpn = None THEN Outcome(s, config, "no_vpn_active")
    ELSE IF ~WgQuickDownOk(s, config.active_vpn, ok)
    THEN Outcome(s, config, "500")
    ELSE
    LET s1 == [s EXCEPT !.ifUp = @ \ {config.active_vpn}]
        saved == [config EXCEPT !.active_vpn = None]
        s2 == IF saved.kill_switch_enabled
              THEN apply_kill_switch(s1, TRUE) ELSE s1
    IN  Outcome(s2, saved, "disconnected")

\* apply_device_routing of main_old.py.  ch.arp: `arp -n` succeeds; ch.route:
\* the `ip route add` of the bypass default route succeeds.
apply_device_routing_old(s, table, mac, bypass, ch) ==
    IF ~ch.arp THEN Applied(s, None)
    ELSE
    LET ip == arp_lookup(table, mac) IN
    IF ip = None THEN Applied(s, None)
    ELSE IF bypass
    THEN LET s1 == [s EXCEPT !.rules =
                        IpRuleAdd(IpRuleDel(@, SrcLookup(ip)), SrcLookup(ip))]
         IN  Applied(ReplaceBypassRoute(s1, ch.route), ip)
    ELSE Applied([s EXCEPT !.rules = IpRuleDel(@, SrcLookup(ip)),
                           !.route = "none"], ip)

\* set_device_bypass of main_old.py
set_device_bypass_old(config, s, table, mac_in, bypass, ch) ==
    LET mac == url_decode(mac_in)
        i == FindMac(config.devices, mac)
        l == FindMac(DhcpLeases, mac)
    IN  IF i = 0 /\ l = 0
        THEN [out |-> Outcome(s, config, "404"), ip |-> None]
        ELSE
        LET saved ==
                IF i # 0
                THEN [config EXCEPT !.devices[i].bypass_vpn = bypass]
                ELSE [config EXCEPT !.devices =
                        Append(@, Device(mac, DhcpLeases[l].ip, bypass))]
            applied == apply_device_routing_old(s, table, mac, bypass, ch)
        IN  [out |-> Outcome(applied.s, saved, "updated"), ip |-> applied.ip]

\* for ip in ips: ip rule del to <ip>, ip rule add to <ip> priority 100
RECURSIVE LookupEach(_, _)
LookupEach(rules, ips) ==
    IF ips = <<>> THEN rules
    ELSE LookupEach(IpRuleAdd(IpRuleDel(rules, DstLookup(Head(ips))),
                              DstLookup(Head(ips))),
                    Tail(ips))

\* for each address line: ip rule del to <ip>
RECURSIVE UnlookupEach(_, _)
UnlookupEach(rules, ips) ==
    IF ips = <<>> THEN rules
    ELSE UnlookupEach(IpRuleDel(rules, DstLookup(Head(ips))), Tail(ips))

\* apply_domain_bypass of main_old.py.  The bypass route is replaced on
\* every enable that resolved, also with no address in the answer.
apply_domain_bypass_old(s, answer, enable, ok) ==
    IF enable
    THEN IF ~answer.ok THEN s
         ELSE ReplaceBypassRoute(
                [s EXCEPT !.rules = LookupEach(@, answer.ips)], ok)
    ELSE IF answer.ok
         THEN [s EXCEPT !.rules = UnlookupEach(@, answer.ips)]
         ELSE s

\* add_domain_bypass of main_old.py
add_domain_bypass_old(config, s, domain, answer, ok) ==
    IF InBypassList(config, domain) THEN Outcome(s, config, "409")
    ELSE LET saved == [config EXCEPT !.domain_bypasses =
                                        Append(@, DomainBypass(domain))]
         IN  Outcome(apply_domain_bypass_old(s, answer, TRUE, ok), saved,
                     "success")

\* remove_domain_bypass of main_old.py
remove_domain_bypass_old(config, s, domain, answer) ==
    LET kept == SelectSeq(config.domain_bypasses, LAMBDA d : d.domain # domain)
    IN  IF Len(kept) = Len(config.domain_bypasses)
        THEN Outcome(s, config, "404")
        ELSE Outcome(apply_domain_bypass_old(s, answer, FALSE, TRUE),
                     [config EXCEPT !.domain_bypasses = kept], "success")

\* add_vpn_config of main_old.py: the config goes to /etc/wireguard; ok: the
\* `cp` into that directory succeeds.
add_vpn_config_old(config, s, name_in, config_content, ok) ==
    LET name == sanitize(name_in) IN
    IF name = "" THEN Outcome(s, config, "400")
    ELSE IF name \in s.confs THEN Outcome(s, config, "409")
    ELSE IF ~has_interface(config_content) \/ ~has_peer(config_content)
    THEN Outcome(s, config, "400")
    ELSE IF ~ok THEN Outcome(s, config, "500")
    ELSE Outcome([s EXCEPT !.confs = @ \cup {name}], config, "success")

\* Config names a request to main_old.py may carry: the config of the tunnel
\* it used to run, a config added through it, and the name of a stored
\* profile, which is no config in /etc/wireguard.
OldConfigNames == LegacyNames \cup {"siteC", "siteA"}

\* POST /api/vpn/connect/{config_name} of main_old.py
ConnectOld ==
    \E config_name \in OldConfigNames, list \in BOOLEAN, up \in BOOLEAN,
       down \in SUBSET (sys.ifUp \cap sys.confs) :
        LET ch == [list |-> list, down |-> down, up |-> up]
            out == connect_vpn_old(load_config, sys, config_name, ch)
        IN  /\ Finish(out, Call("connect_old", config_name, FALSE,
                                out.status, FALSE))
            /\ UNCHANGED <<profiles, env, hist, prev, issued>>

\* POST /api/vpn/disconnect of main_old.py
DisconnectOld ==
    \E ok \in BOOLEAN :
        LET out == disconnect_vpn_old(load_config, sys, ok)
        IN  /\ Finish(out, Call("disconnect_old", None, FALSE,
                                out.status, FALSE))
            /\ UNCHANGED <<profiles, env, hist, prev, issued>>

\* MACs a device request to main_old.py may carry: a leased one as the lease
\* file writes it, the same percent-encoded in capitals, and an unknown one.
OldMacInputs ==
    {"aa:bb:cc:dd:ee:ff", "AA%3ABB%3ACC%3ADD%3AEE%3AFF", "de:ad:be:ef:00:01"}

\* POST and GET /api/devices/{mac}/bypass of main_old.py
SetDeviceBypassOld ==
    \E mac \in OldMacInputs, bypass \in BOOLEAN, arp \in BOOLEAN, route \in BOOLEAN :
        LET ch == [arp |-> arp, route |-> route]
            r == set_device_bypass_old(load_config, sys, env.arp, mac, bypass, ch)
        IN  /\ Finish(r.out, Call("set_device_bypass_old", mac, bypass,
                                  r.out.status, FALSE))
            /\ UNCHANGED <<profiles, env, hist, prev, issued>>

\* The domain the requests to main_old.py name; it resolves to one address.
OldDomains == {"example.com"}

\* POST /api/domains/bypass of main_old.py
AddDomainBypassOld ==
    \E domain \in OldDomains, ok \in BOOLEAN :
        LET out == add_domain_bypass_old(load_config, sys, domain,
                                         env.dns[domain], ok)
        IN  /\ Finish(out, Call("add_domain_bypass_old", domain, TRUE,
                                out.status, FALSE))
            /\ UNCHANGED <<profiles, env, hist, prev, issued>>

\* DELETE /api/domains/bypass/{domain} of main_old.py
RemoveDomainBypassOld ==
    \E domain \in OldDomains :
        LET out == remove_domain_bypass_old(load_config, sys, domain,
                                            env.dns[domain])
        IN  /\ Finish(out, Call("remove_domain_bypass_old", domain, FALSE,
                                out.status, FALSE))
            /\ UNCHANGED <<profiles, env, hist, prev, issued>>

\* Names and contents an add request to main_old.py may carry: a new name,
\* one that sanitizes to it, a taken one and an empty one; a complete config
\* and one without its [Peer] section.
OldAddNames == {"siteC", "site/C", "wg-lon-st001", ""}

OldAddContents == {"contentC", "interface_only"}

\* POST /api/vpn/add of main_old.py
AddVpnConfigOld ==
    \E name \in OldAddNames, config_content \in OldAddContents, ok \in BOOLEAN :
        LET out == add_vpn_config_old(load_config, sys, name, config_content, ok)
        IN  /\ Finish(out, Call("add_vpn_config_old", name,
                                has_interface(config_content)
                                  /\ has_peer(config_content),
                                out.status, FALSE))
            /\ UNCHANGED <<profiles, env, hist, prev, issued>>

\* main_old.py starts on a host whose /etc/wireguard holds the config of the
\* tunnel it used to run, with one leased device on the network.
InitOld ==
    /\ InitCommon
    /\ env = [OverlapEnv EXCEPT !.dns["example.com"] = AnswerOf({1})]
    /\ sys = [CleanSys EXCEPT !.confs = LegacyNames]

\* The tunnel routes of main_old.py; its kill-switch route does what the
\* current one does.
NextOld ==
    ConnectOld \/ DisconnectOld \/ ToggleKillSwitch \/ AddVpnConfigOld

SpecOld == InitOld /\ [][NextOld]_vars

\* The device and domain routes of main_old.py
NextOldBypass ==
    SetDeviceBypassOld \/ AddDomainBypassOld \/ RemoveDomainBypassOld

SpecOldBypass == InitOld /\ [][NextOldBypass]_vars

-----------------------------------------------------------------------------
(* Claims about the tunnel lifecycle and the kill switch, under Spec *)

KillSwitchRules == Count(sys.forward, KILLSWITCH)

\* C1: after any sequence of completed connect, disconnect and kill-switch
\* calls, if the kill-switch flag is set and no tunnel interface is up, the
\* KILLSWITCH reject rule is installed.
C1_KillSwitchCoversNoTunnel ==
    (policy.kill_switch_enabled /\ sys.ifUp = {}) => KillSwitchRules >= 1

TwoConnects ==
    /\ prev.op = "connect" /\ prev.status = "connected"
    /\ result.op = "connect" /\ result.status = "connected"

SecondProfileLive ==
    /\ WG_INTERFACE \in sys.ifUp
    /\ sys.liveConf = profiles[result.arg]
    /\ policy.active_vpn = result.arg

OnlySingleInterface ==
    /\ sys.ifUp = {WG_INTERFACE}
    /\ sys.units \subseteq {WG_INTERFACE}

\* C2: a successful connect followed by a successful connect leaves
\* exactly one tunnel interface up (wg0) with the second profile's content as
\* live config, activeProfile the second profile, and no autostart unit
\* enabled for any other name.
C2_TwoConnectsLeaveOneTunnel ==
    TwoConnects => (SecondProfileLive /\ OnlySingleInterface)

\* C3: connect for a name with no file in the profile store fails with 404
\* and changes nothing: policy, interfaces, units, live config, netfilter
\* rules and the profile store are as before (no cleanup pass runs).
C3_UnknownProfileChangesNothing ==
    [][(result'.op = "connect" /\ result'.arg \notin DOMAIN profiles)
        => (/\ result'.status = "404"
            /\ sys' = sys
            /\ policy' = policy
            /\ profiles' = profiles)]_vars

C3_Witness ==
    /\ result.op = "connect" /\ result.arg = "ghost" /\ result.status = "404"
    /\ policy.active_vpn = "siteA"
    /\ WG_INTERFACE \in sys.ifUp /\ WG_INTERFACE \in sys.units

\* C4: enabling the kill switch while a profile is active persists the flag
\* and installs no reject rule; a disconnect that then returns without error
\* installs it; disabling the kill switch while the rule is installed removes
\* it, leaving no reject rule.
C4_KillSwitchToggleSequence ==
    [][/\ (result'.op = "kill_switch" /\ result'.flag /\ policy.active_vpn # None)
            => (policy'.kill_switch_enabled /\ sys'.forward = sys.forward)
       /\ (/\ result.op = "kill_switch" /\ result.flag /\ policy.active_vpn # None
           /\ result'.op = "disconnect" /\ result'.status # "500")
            => Count(sys'.forward, KILLSWITCH) = 1
       /\ (result'.op = "kill_switch" /\ ~result'.flag /\ KillSwitchRules >= 1)
            => (~policy'.kill_switch_enabled /\ Count(sys'.forward, KILLSWITCH) = 0)
      ]_vars

\* C5: disconnect is a no-op success exactly when no profile is active;
\* otherwise, when the bring-down succeeds, it ends with the interface down,
\* autostart disabled, activeProfile none and the reject rule installed iff
\* the kill-switch flag is set; after any disconnect that returns without
\* error activeProfile is none.
C5_DisconnectContract ==
    [][(result'.op = "disconnect") =>
        /\ (result'.status = "no_vpn_active") <=> (policy.active_vpn = None)
        /\ (result'.status = "no_vpn_active") => (sys' = sys /\ policy' = policy)
        /\ (policy.active_vpn # None /\ result'.status = "disconnected")
            => /\ WG_INTERFACE \notin sys'.ifUp
               /\ WG_INTERFACE \notin sys'.units
               /\ policy'.active_vpn = None
               /\ (Count(sys'.forward, KILLSWITCH) >= 1) <=> policy.kill_switch_enabled
        /\ (result'.status # "500") => (policy'.active_vpn = None)
      ]_vars

-----------------------------------------------------------------------------
(* Claims about device routing, under SpecDevice, and about the
   infrastructure, under SpecInfra *)

MarkRules(s, ip) == Count(s.mangle, MarkSrc(ip))

AcceptRules(s, ip) == Count(s.forward, AcceptOut(ip)) + Count(s.forward, AcceptIn(ip))

\* C6: starting with no rules for an IP, after any non-empty sequence of
\* enabling apply_device_routing calls that resolve to the IP there is exactly
\* one mark rule and exactly two forwarding-accept rules (one per direction)
\* for it; after a following disable there is none of the three.
C6_DeviceRulesExactlyOnce ==
    \A ip \in DevIps :
        /\ hist[ip] \in {"enable", "enable_again"} =>
              /\ MarkRules(sys, ip) = 1
              /\ Count(sys.forward, AcceptOut(ip)) = 1
              /\ Count(sys.forward, AcceptIn(ip)) = 1
        /\ hist[ip] = "disable" =>
              (MarkRules(sys, ip) = 0 /\ AcceptRules(sys, ip) = 0)

C6_Witness ==
    /\ hist["192.168.10.11"] = "enable_again"
    /\ MarkRules(sys, "192.168.10.11") = 1
    /\ AcceptRules(sys, "192.168.10.11") = 2
    /\ hist["192.168.10.12"] = "disable"
    /\ MarkRules(sys, "192.168.10.12") = 0

UnresolvedEnable ==
    /\ result'.op = "set_device_bypass" /\ result'.flag
    /\ policy.devices = <<>>
    /\ arp_lookup(env.arp, url_decode(result'.arg)) = None

SavedEnabledKernelUntouched ==
    /\ result'.status = "updated"
    /\ FindMac(policy'.devices, url_decode(result'.arg)) # 0
    /\ policy'.devices[FindMac(policy'.devices, url_decode(result'.arg))].bypass_vpn
    /\ sys' = sys

\* C7 as stated: from an empty policy, set_device_bypass(mac, true) for a MAC
\* with no neighbor-table row returns success, saves the device with
\* bypass enabled and leaves the kernel state unchanged.
C7_UnresolvedEnableSucceeds ==
    [][UnresolvedEnable => SavedEnabledKernelUntouched]_vars

\* C7 amended: the same for a MAC that is listed in the DHCP leases; a MAC in
\* neither the policy nor the leases is rejected with 404 and nothing is saved.
C7_UnresolvedEnableLeased ==
    [][UnresolvedEnable =>
        IF FindMac(DhcpLeases, url_decode(result'.arg)) # 0
        THEN SavedEnabledKernelUntouched
        ELSE result'.status = "404" /\ policy' = policy /\ sys' = sys]_vars

C7_Witness ==
    /\ result.op = "set_device_bypass" /\ result.flag
    /\ result.arg = "AA:BB:CC:DD:EE:FF" /\ result.status = "updated"
    /\ policy.devices = <<Device("AA:BB:CC:DD:EE:FF", "192.168.10.11", TRUE)>>
    /\ arp_lookup(env.arp, result.arg) = None
    /\ sys.mangle = <<>> /\ sys.forward = <<>>
    /\ sys.rules = <<>> /\ sys.nat = <<>> /\ sys.route = "none"

MasqueradeRules(s) == Count(s.nat, MASQUERADE)

InfraOnce(s) ==
    s.route = BYPASS_ROUTE /\ FwmarkRules(s) = 1 /\ MasqueradeRules(s) = 1

\* C9: from a kernel state holding each infrastructure rule at most once, an
\* ensure_bypass_infrastructure call whose route and listing commands succeed
\* leaves the bypass default route, exactly one fwmark rule and exactly one
\* masquerade rule and keeps every other rule; a further such call right
\* after it changes nothing, so N calls leave what one call leaves.
C9_EnsureInfrastructureIdempotent ==
    [][(result'.op = "ensure_infrastructure" /\ result'.flag) =>
        /\ (FwmarkRules(sys) <= 1 /\ MasqueradeRules(sys) <= 1)
            => /\ InfraOnce(sys')
               /\ Count(sys'.rules, OTHER_RULE) = Count(sys.rules, OTHER_RULE)
               /\ Count(sys'.nat, OTHER_NAT) = Count(sys.nat, OTHER_NAT)
               /\ sys' = [sys EXCEPT !.route = sys'.route,
                                     !.rules = sys'.rules, !.nat = sys'.nat]
        /\ (result.op = "ensure_infrastructure" /\ result.flag) => sys' = sys
      ]_vars

C9_Witness ==
    /\ result.op = "ensure_infrastructure" /\ result.flag /\ result.arg = "again"
    /\ InfraOnce(sys)
    /\ sys.nat = <<OTHER_NAT, MASQUERADE>>

\* C10: after any number of ensure_bypass_infrastructure calls exactly one
\* fwmark rule routes marked packets into the bypass table, also when the
\* rule listing used for the presence check fails.
C10_ExactlyOneFwmarkRule ==
    /\ (result.op = "ensure_infrastructure") => FwmarkRules(sys) = 1
    /\ \A route \in BOOLEAN, show \in BOOLEAN :
          FwmarkRules(ensure_bypass_infrastructure(
                          sys, [route |-> route, show |-> show])) = 1

\* A call with a failed command follows a call without one, among a foreign
\* rule: one fwmark rule is there, and a call whose listing fails leaves the
\* rule list as it is.
C10_Witness ==
    /\ result.op = "ensure_infrastructure" /\ result.arg = "again"
    /\ ~result.flag
    /\ FwmarkRules(sys) = 1 /\ Count(sys.rules, OTHER_RULE) = 1
    /\ ensure_bypass_infrastructure(sys, [route |-> TRUE, show |-> FALSE]).rules
          = sys.rules

-----------------------------------------------------------------------------
(* Claims about the domain bypass, under SpecDomain *)

DstRules(s, ip) == Count(s.mangle, MarkDst(ip))

AllDstIps == {DstIps[i] : i \in 1..Len(DstIps)}

Resolved(domain) == {env.dns[domain].ips[i] : i \in 1..Len(env.dns[domain].ips)}

\* C8: an add_domain_bypass that resolves the domain leaves exactly one
\* destination mark rule for each resolved address; a remove_domain_bypass
\* deletes the rules of the addresses resolved at removal time and no other,
\* so after add under {A,B} and remove under {B,C} the domain is gone from the
\* policy while the rule for A is still installed.
C8_RemoveUsesReresolvedSet ==
    [][/\ (/\ result'.op = "add_domain_bypass" /\ result'.status = "success"
           /\ env.dns[result'.arg].ok)
            => \A ip \in AllDstIps :
                  DstRules(sys', ip) = IF ip \in Resolved(result'.arg) THEN 1
                                       ELSE DstRules(sys, ip)
       /\ (/\ result'.op = "remove_domain_bypass" /\ result'.status = "success"
           /\ env.dns[result'.arg].ok)
            => /\ ~InBypassList(policy', result'.arg)
               /\ \A ip \in AllDstIps :
                     DstRules(sys', ip) = IF ip \in Resolved(result'.arg) THEN 0
                                          ELSE DstRules(sys, ip)
      ]_vars

C8_Witness ==
    /\ result.op = "remove_domain_bypass" /\ result.status = "success"
    /\ result.arg = "example.com"
    /\ env.dns["example.com"] = AnswerOf({2, 3})
    /\ policy.domain_bypasses = <<>>
    /\ DstRules(sys, DstIps[1]) = 1
    /\ DstRules(sys, DstIps[2]) = 0
    /\ DstRules(sys, DstIps[3]) = 0

-----------------------------------------------------------------------------
(* Claims about the profile store, under SpecProfile *)

\* The names a listing shows, whatever the interface probe returns.
ListedNames(store) ==
    {e.name : e \in list_vpn_configs(store, policy, sys, TRUE)}

\* C11: deleting the active profile is rejected (400) and leaves the profile
\* store and the policy unchanged; deleting an existing profile that is not
\* active succeeds and the name is in no later listing; deleting a name
\* without a file fails with 404.
C11_DeleteProfileContract ==
    [][/\ ListedNames(profiles') \subseteq ListedNames(profiles)
       /\ (result'.op = "delete_profile") =>
            /\ (result'.arg \notin DOMAIN profiles) =>
                  (result'.status = "404" /\ profiles' = profiles)
            /\ (result'.arg \in DOMAIN profiles /\ policy.active_vpn = result'.arg) =>
                  (result'.status = "400" /\ profiles' = profiles)
            /\ (result'.arg \in DOMAIN profiles /\ policy.active_vpn # result'.arg) =>
                  /\ result'.status = "success"
                  /\ result'.arg \notin ListedNames(profiles')
                  /\ ListedNames(profiles') = ListedNames(profiles) \ {result'.arg}
            /\ policy' = policy /\ sys' = sys
      ]_vars

C11_Witness ==
    /\ result.op = "delete_profile" /\ result.arg = "siteB"
    /\ result.status = "success"
    /\ policy.active_vpn = "siteA"
    /\ DOMAIN profiles = {"siteA"}

-----------------------------------------------------------------------------
(* Claims about failures inside connect and disconnect, under Spec *)

\* C12: a connect that fails at the config copy or at the bring-up returns an
\* error and performs no later step: it enables no autostart unit, leaves the
\* FORWARD chain (and so the kill-switch reject rule) as it was and keeps
\* activeProfile; and every connect that returns an error has done so.
C12_FailedConnectStopsEarly ==
    /\ [](\A profile_name \in DOMAIN profiles, ch \in ConnectChoices(sys) :
            (~ch.cp \/ ~ch.up) =>
                LET out == connect_vpn(profiles, policy, sys, profile_name, ch)
                IN  /\ out.status = "500"
                    /\ out.p = policy
                    /\ out.s.forward = sys.forward
                    /\ out.s.units \subseteq sys.units)
    /\ [][(result'.op = "connect" /\ result'.status = "500") =>
            /\ policy' = policy
            /\ sys'.forward = sys.forward
            /\ sys'.units \subseteq sys.units
         ]_vars

C12_Witness ==
    /\ result.op = "connect" /\ result.arg = "siteB" /\ result.status = "500"
    /\ policy.active_vpn = None /\ policy.kill_switch_enabled
    /\ KillSwitchRules = 1
    /\ WG_INTERFACE \notin sys.units /\ WG_INTERFACE \notin sys.ifUp
    /\ sys.liveConf = "contentB"

\* C14: when disconnect finds the tunnel (the probe succeeds and wg0 is up)
\* and the bring-down fails, the call fails with 500 and changes nothing:
\* activeProfile is kept, autostart is not disabled and no reject rule is
\* installed even with the kill-switch flag set.
C14_FailedBringDownChangesNothing ==
    /\ [](\A disable \in BOOLEAN :
            LET ch == [show |-> TRUE, down |-> FALSE, disable |-> disable]
                out == disconnect_vpn(policy, sys, ch)
            IN  (WG_INTERFACE \in sys.ifUp) =>
                    (out.status = "500" /\ out.s = sys /\ out.p = policy))
    /\ [][(result'.op = "disconnect" /\ result'.status = "500") =>
            (sys' = sys /\ policy' = policy /\ profiles' = profiles)]_vars

C14_Witness ==
    /\ result.op = "disconnect" /\ result.status = "500"
    /\ policy.active_vpn = "siteA" /\ policy.kill_switch_enabled
    /\ WG_INTERFACE \in sys.ifUp /\ WG_INTERFACE \in sys.units
    /\ KillSwitchRules = 0

\* The teardown commands of a cleanup succeed for every interface that is up.
TeardownSucceeds(s, ch) ==
    \A i \in s.ifUp :
        \/ i \in s.confs \cap LegacyNames \cap ch.stopped
        \/ ch.list /\ ((i \in ch.down /\ i \in s.confs) \/ i \in ch.del)

\* The state a connect leaves carries the cleanup's result for every unit and
\* every interface other than wg0's.
CleanupApplied(s, ch, out) ==
    LET cleaned == cleanup_previous_state(s, ch)
    IN  /\ out.s.units \ {WG_INTERFACE} = cleaned.units \ {WG_INTERFACE}
        /\ out.s.ifUp \ {WG_INTERFACE} = cleaned.ifUp \ {WG_INTERFACE}

\* C15 as stated: every connect on an existing profile runs the cleanup pass
\* before activating, also for the active profile with its tunnel up, and the
\* state after the cleanup pass has no tunnel interface up.
C15_ReconnectPassesThroughNoTunnel ==
    \A profile_name \in DOMAIN profiles, ch \in ConnectChoices(sys) :
        /\ CleanupApplied(sys, ch,
                connect_vpn(profiles, policy, sys, profile_name, ch))
        /\ cleanup_previous_state(sys, ch).ifUp = {}

\* C15 amended: every connect on an existing profile runs the cleanup pass
\* before activating, also for the active profile with its tunnel up; the
\* state after the pass has no tunnel interface up when the teardown commands
\* succeeded, and wg0 down whenever the connect returns success.
C15_ReconnectCleansFirst ==
    \A profile_name \in DOMAIN profiles, ch \in ConnectChoices(sys) :
        LET out == connect_vpn(profiles, policy, sys, profile_name, ch)
            cleaned == cleanup_previous_state(sys, ch)
        IN  /\ CleanupApplied(sys, ch, out)
            /\ TeardownSucceeds(sys, ch) => cleaned.ifUp = {}
            /\ (out.status = "connected") => WG_INTERFACE \notin cleaned.ifUp

C15_Witness ==
    /\ TwoConnects /\ prev.arg = "siteA" /\ result.arg = "siteA"
    /\ policy.active_vpn = "siteA" /\ sys.ifUp = {WG_INTERFACE}
    /\ sys.liveConf = "contentA"

\* C16: no step enables an autostart unit other than wg-quick@wg0: the units
\* of every other name only ever go from enabled to disabled.
C16_OnlySingleUnitEnabled ==
    [][/\ (sys'.units \ sys.units) \subseteq {WG_INTERFACE}
       /\ (sys'.units \ {WG_INTERFACE}) \subseteq (sys.units \ {WG_INTERFACE})
      ]_vars

C16_Witness ==
    /\ result.op = "connect" /\ result.status = "connected"
    /\ prev.op = "none"
    /\ sys.units = {WG_INTERFACE}
    /\ sys.confs = IfaceNames
    /\ policy.active_vpn = "siteB"

\* C17: after a connect that returns success the saved activeProfile is the
\* requested profile; if the kill-switch flag was set no reject rule is
\* installed, and if it was not set the FORWARD chain is as it was.
C17_ConnectPersistsAndLiftsKillSwitch ==
    [][(result'.op = "connect" /\ result'.status = "connected") =>
        /\ policy'.active_vpn = result'.arg
        /\ policy'.kill_switch_enabled = policy.kill_switch_enabled
        /\ policy.kill_switch_enabled => Count(sys'.forward, KILLSWITCH) = 0
        /\ ~policy.kill_switch_enabled => sys'.forward = sys.forward
      ]_vars

C17_Witness ==
    /\ result.op = "connect" /\ result.status = "connected"
    /\ result.arg = "siteB" /\ policy.active_vpn = "siteB"
    /\ prev.op = "kill_switch" /\ prev.flag
    /\ policy.kill_switch_enabled /\ KillSwitchRules = 0

-----------------------------------------------------------------------------
(* Claims about best-effort commands, under SpecBestEffort *)

\* C13: a connect to an existing profile whose config copy and bring-up
\* succeed returns "connected" whatever the outcome of the unit disable and
\* stop, the interface teardown and forced deletion, the autostart enable and
\* the kill-switch rule deletion; and a kill-switch toggle, a device-bypass
\* disable and a domain-bypass removal whose rules are absent from the kernel
\* return success.
C13_BestEffortNeverFails ==
    /\ [](\A profile_name \in DOMAIN profiles, ch \in ConnectChoices(sys) :
            (/\ ch.cp /\ ch.up
             /\ WG_INTERFACE \notin cleanup_previous_state(sys, ch).ifUp) =>
                connect_vpn(profiles, policy, sys, profile_name, ch).status
                    = "connected")
    /\ [][/\ (result'.op = "kill_switch") => (result'.status = "success")
          /\ (/\ result'.op = "set_device_bypass" /\ ~result'.flag
              /\ Known(policy, result'.arg)) => (result'.status = "updated")
          /\ (/\ result'.op = "remove_domain_bypass"
              /\ InBypassList(policy, result'.arg)) => (result'.status = "success")
         ]_vars

C13_Witness ==
    /\ result.op = "connect" /\ result.status = "connected"
    /\ WG_INTERFACE \notin sys.units
    /\ policy.kill_switch_enabled /\ KillSwitchRules = 0
    /\ policy.domain_bypasses = <<>>
    /\ ~policy.devices[1].bypass_vpn /\ hist["192.168.10.11"] = "disable"
    /\ sys.mangle = <<>>

-----------------------------------------------------------------------------
(* Claims about the domain bypass list, under SpecDomain *)

\* How many entries of the saved bypass list carry the domain.
Entries(config, domain) ==
    Cardinality({i \in 1..Len(config.domain_bypasses) :
                    config.domain_bypasses[i].domain = domain})

\* C18: adding a domain that is in the policy fails with 409 and removing one
\* that is not fails with 404; in both cases the policy is not written and no
\* kernel command is issued; the policy holds each domain at most once.
C18_DomainConflictAndNotFound ==
    /\ [](\A d \in Domains : Entries(policy, d) <= 1)
    /\ [][/\ (result'.op = "add_domain_bypass" /\ InBypassList(policy, result'.arg))
                => /\ result'.status = "409"
                   /\ policy' = policy /\ sys' = sys /\ issued' = <<>>
          /\ (result'.op = "remove_domain_bypass" /\ ~InBypassList(policy, result'.arg))
                => /\ result'.status = "404"
                   /\ policy' = policy /\ sys' = sys /\ issued' = <<>>
         ]_vars

C18_Witness ==
    /\ result.op = "add_domain_bypass" /\ result.status = "409"
    /\ result.arg = "example.com"
    /\ Entries(policy, "example.com") = 1
    /\ env.dns["example.com"].ok /\ env.dns["example.com"].ips # <<>>
    /\ sys.mangle = <<>> /\ issued = <<>>

\* Only the route-cache flush is among the commands.
OnlyFlushes(cmds) == \A i \in 1..Len(cmds) : cmds[i] = FLUSH_CACHE

\* C19: when the resolution of the domain fails, an add still returns success
\* with the domain recorded in the policy and a remove still returns success
\* with the domain taken out of it; neither adds or deletes a mark rule nor
\* ensures the infrastructure, so every mark rule installed for the domain
\* stays in the kernel.
C19_ResolutionFailureKeepsKernel ==
    [][/\ (/\ result'.op = "add_domain_bypass"
           /\ ~InBypassList(policy, result'.arg)
           /\ ~env.dns[result'.arg].ok)
            => /\ result'.status = "success"
               /\ Entries(policy', result'.arg) = 1
               /\ sys' = sys /\ OnlyFlushes(issued')
       /\ (/\ result'.op = "remove_domain_bypass"
           /\ InBypassList(policy, result'.arg)
           /\ ~env.dns[result'.arg].ok)
            => /\ result'.status = "success"
               /\ Entries(policy', result'.arg) = 0
               /\ sys' = sys /\ OnlyFlushes(issued')
      ]_vars

C19_Witness ==
    /\ result.op = "remove_domain_bypass" /\ result.status = "success"
    /\ result.arg = "example.com" /\ ~env.dns["example.com"].ok
    /\ policy.domain_bypasses = <<>>
    /\ sys.mangle = <<MarkDst(DstIps[1]), MarkDst(DstIps[2])>>
    /\ issued = <<FLUSH_CACHE>>

\* The route-cache flush is the last of the commands and occurs nowhere else.
EndsWithFlush(cmds) ==
    /\ cmds # <<>>
    /\ \A i \in 1..Len(cmds) : (cmds[i] = FLUSH_CACHE) <=> (i = Len(cmds))

DomainCallApplied ==
    /\ result'.op \in {"add_domain_bypass", "remove_domain_bypass"}
    /\ result'.status = "success"

\* C20 as stated: every apply_domain_bypass call, enabling or disabling,
\* whether or not the resolution succeeds or returns an address, ends by
\* flushing the route cache, the flush being its last kernel command.
C20_AlwaysEndsWithFlush ==
    [][DomainCallApplied => EndsWithFlush(issued')]_vars

\* C20 amended: every apply_domain_bypass call ends by flushing the route
\* cache as its last kernel command, except an enabling call whose resolution
\* fails, which issues no kernel command; the commands issued, run in order,
\* give the kernel state the call leaves.
C20_EndsWithFlushUnlessEnableFails ==
    [][DomainCallApplied =>
        /\ IF result'.op = "add_domain_bypass" /\ ~env.dns[result'.arg].ok
           THEN issued' = <<>>
           ELSE EndsWithFlush(issued')
        /\ \E route \in BOOLEAN, show \in BOOLEAN :
              sys' = RunCommands(sys, issued', [route |-> route, show |-> show])
      ]_vars

C20_Witness ==
    /\ result.op = "add_domain_bypass" /\ result.status = "success"
    /\ result.arg = "cdn.example.net"
    /\ issued = <<ENSURE_INFRA,
                  DelMarkDst(DstIps[1]), AddMarkDst(DstIps[1]),
                  DelMarkDst(DstIps[3]), AddMarkDst(DstIps[3]),
                  FLUSH_CACHE>>
    /\ sys.mangle = <<MarkDst(DstIps[1]), MarkDst(DstIps[3])>>

-----------------------------------------------------------------------------
(* Claims about the order of the device-routing commands, under SpecDevice *)

RuleChanges ==
    {"DELETE_MARK_SRC", "APPEND_MARK_SRC", "DELETE_ACCEPT_OUT",
     "APPEND_ACCEPT_OUT", "DELETE_ACCEPT_IN", "APPEND_ACCEPT_IN"}

\* The commands end with the route-cache flush and then the conntrack
\* deletion for ip, each issued once, after every rule change.
FlushThenConntrackLast(cmds, ip) ==
    /\ Len(cmds) >= 2
    /\ cmds[Len(cmds) - 1] = FLUSH_CACHE
    /\ cmds[Len(cmds)] = ConntrackDelete(ip)
    /\ \A i \in 1..(Len(cmds) - 2) :
            cmds[i].t \notin {"ROUTE_FLUSH_CACHE", "CONNTRACK_DELETE"}

\* Every change of a source mark rule is followed, later in the same
\* sequence, by the conntrack deletion for the same address.
MarkChangesFollowedByConntrack(cmds) ==
    \A i \in 1..Len(cmds) :
        cmds[i].t \in {"DELETE_MARK_SRC", "APPEND_MARK_SRC"} =>
            \E j \in (i + 1)..Len(cmds) : cmds[j] = ConntrackDelete(cmds[i].ip)

\* C21: every apply_device_routing call that resolved the device's address,
\* enabling or disabling, issues the route-cache flush and then the conntrack
\* deletion for that address after all its mark-rule and forwarding-rule
\* changes, whatever the kernel state (so also when a deletion finds no rule
\* and fails); no call changes a mark rule without dropping the conntrack
\* entries of that address later in the same call; the commands issued, run
\* in order, give the kernel state the call leaves.
C21_FlushThenConntrackAfterRuleChanges ==
    /\ [](\A mac_in \in MacInputs, bypass \in BOOLEAN, arp \in BOOLEAN :
            LET mac == url_decode(mac_in)
                ip == arp_lookup(env.arp, mac)
                cmds == apply_device_routing_commands(env.arp, mac, bypass, arp)
            IN  /\ (arp /\ ip # None) =>
                    /\ FlushThenConntrackLast(cmds, ip)
                    /\ \E i \in 1..Len(cmds) : cmds[i].t \in RuleChanges
                /\ MarkChangesFollowedByConntrack(cmds)
                /\ \A route \in BOOLEAN, show \in BOOLEAN :
                    LET ch == [arp |-> arp, route |-> route, show |-> show]
                    IN  RunCommands(sys, cmds, ch)
                          = apply_device_routing(sys, env.arp, mac, bypass, ch).s)
    /\ [][result'.op = "set_device_bypass" =>
            /\ MarkChangesFollowedByConntrack(issued')
            /\ (sys'.mangle # sys.mangle \/ sys'.forward # sys.forward) =>
                    \E ip \in DevIps : FlushThenConntrackLast(issued', ip)]_vars

\* A disabling call for an address that had no rules: its three deletions
\* failed, and the flush and the conntrack deletion were issued all the same.
C21_Witness ==
    /\ result.op = "set_device_bypass" /\ ~result.flag
    /\ issued = DeleteDeviceCommands("192.168.10.11")
                    \o <<FLUSH_CACHE, ConntrackDelete("192.168.10.11")>>
    /\ sys.mangle = <<>> /\ sys.forward = <<>>
    /\ hist["192.168.10.11"] = "disable"

-----------------------------------------------------------------------------
(* Claims about the device set of the policy, under SpecDevice *)

SavedMacs(config) ==
    {to_lower(config.devices[i].mac) : i \in 1..Len(config.devices)}

LeasedMacs == {to_lower(DhcpLeases[i].mac) : i \in 1..Len(DhcpLeases)}

LeasedIp(mac) ==
    LET l == CHOOSE i \in 1..Len(DhcpLeases) :
                to_lower(DhcpLeases[i].mac) = to_lower(mac)
    IN  DhcpLeases[l].ip

\* C22: set_device_bypass for a MAC that is neither in the policy's devices
\* nor in the DHCP leases fails with 404, for enabling and for disabling,
\* writes no policy, issues no kernel command and leaves the kernel state as
\* it was; for a MAC absent from the policy and present in the leases it
\* appends one entry with that MAC, the leased address and the requested
\* flag, and keeps the entries already saved.
C22_UnknownMacNotFoundLeasedMacCreated ==
    /\ [](\A mac_in \in MacInputs, bypass \in BOOLEAN, arp \in BOOLEAN,
             route \in BOOLEAN, show \in BOOLEAN :
            LET mac == url_decode(mac_in)
                ch == [arp |-> arp, route |-> route, show |-> show]
                r == set_device_bypass(policy, sys, env.arp, mac_in, bypass, ch)
            IN  /\ (to_lower(mac) \notin SavedMacs(policy) \cup LeasedMacs) =>
                    /\ r.out.status = "404"
                    /\ r.out.p = policy /\ r.out.s = sys /\ r.ip = None
                    /\ set_device_bypass_commands(policy, env.arp, mac_in,
                                                  bypass, arp) = <<>>
                /\ (to_lower(mac) \in LeasedMacs \ SavedMacs(policy)) =>
                    /\ r.out.status = "updated"
                    /\ r.out.p = [policy EXCEPT !.devices =
                            Append(@, [mac |-> mac, ip |-> LeasedIp(mac),
                                       bypass_vpn |-> bypass])])
    /\ [][result'.op = "set_device_bypass" =>
            IF to_lower(url_decode(result'.arg)) \notin SavedMacs(policy) \cup LeasedMacs
            THEN /\ result'.status = "404"
                 /\ policy' = policy /\ sys' = sys /\ issued' = <<>>
            ELSE /\ result'.status = "updated"
                 /\ to_lower(url_decode(result'.arg)) \notin SavedMacs(policy) =>
                        /\ Len(policy'.devices) = Len(policy.devices) + 1
                        /\ policy'.devices[Len(policy'.devices)].mac
                                = url_decode(result'.arg)
                        /\ policy'.devices[Len(policy'.devices)].bypass_vpn
                                = result'.flag]_vars

\* An enabling call for an unknown MAC was answered 404 while the policy
\* holds a device created from its lease and that device's rules are
\* installed.
C22_Witness ==
    /\ result.op = "set_device_bypass" /\ result.status = "404"
    /\ result.arg = "de:ad:be:ef:00:01" /\ result.flag
    /\ Len(policy.devices) = 1 /\ policy.devices[1].bypass_vpn
    /\ Count(sys.mangle, MarkSrc(policy.devices[1].ip)) = 1

\* C23: the policy never holds two devices whose MACs are equal ignoring
\* case, whatever the case and encoding of the MACs the calls carried; a call
\* for a MAC that is already saved (ignoring case) sets the flag of that
\* entry and adds none, leaving MAC and address of every entry as they were.
C23_DevicesKeyedByMacIgnoringCase ==
    /\ [](\A i, j \in 1..Len(policy.devices) :
            to_lower(policy.devices[i].mac) = to_lower(policy.devices[j].mac)
                => i = j)
    /\ [][(/\ result'.op = "set_device_bypass"
           /\ to_lower(url_decode(result'.arg)) \in SavedMacs(policy)) =>
            /\ result'.status = "updated"
            /\ Len(policy'.devices) = Len(policy.devices)
            /\ \A i \in 1..Len(policy.devices) :
                /\ policy'.devices[i].mac = policy.devices[i].mac
                /\ policy'.devices[i].ip = policy.devices[i].ip
                /\ policy'.devices[i].bypass_vpn =
                    IF to_lower(policy.devices[i].mac)
                            = to_lower(url_decode(result'.arg))
                    THEN result'.flag
                    ELSE policy.devices[i].bypass_vpn]_vars

\* The device saved under its upper-case MAC was disabled by a call that
\* carried the lower-case MAC, with a second device saved beside it.
C23_Witness ==
    /\ result.op = "set_device_bypass" /\ result.status = "updated"
    /\ result.arg = "aa:bb:cc:dd:ee:ff" /\ ~result.flag
    /\ Len(policy.devices) = 2
    /\ \E i \in 1..2 : /\ policy.devices[i].mac = "AA:BB:CC:DD:EE:FF"
                       /\ ~policy.devices[i].bypass_vpn

-----------------------------------------------------------------------------
(* Claims about overlapping requests, under SpecOverlap *)

\* What a policy document says about a MAC, compared ignoring case.
BypassOf(config, mac) ==
    LET hits == {i \in 1..Len(config.devices) :
                    to_lower(config.devices[i].mac) = to_lower(mac)}
    IN  IF hits = {} THEN "absent"
        ELSE IF \E i \in hits : config.devices[i].bypass_vpn THEN "on" ELSE "off"

Asked(bypass) == IF bypass THEN "on" ELSE "off"

\* The requests whose handler the loop has entered and not left.
InHandler ==
    {c \in CallIds :
        calls[c].pc \in {"loaded", "listed", "opened", "saved", "routing"}}

\* One of the two requests was received while the other was waiting or
\* being handled.
Overlapped(c, d) == d \in calls[c].met \/ c \in calls[d].met

Answered(c) == calls[c].pc = "done" /\ calls[c].status = "updated"

\* No other request received so far names the MAC of request c.
OnlyFor(c) ==
    \A d \in CallIds \ {c} :
        calls[d].pc = "idle" \/ to_lower(calls[d].mac) # to_lower(calls[c].mac)

\* C24 (as claimed): two overlapping requests for different MACs interleave
\* their load-modify-save cycles, so that when both have returned "updated"
\* the stored policy holds only the change of the one that saved last and the
\* other one's change is lost.
C24_OverlapLosesChange ==
    \A c, d \in CallIds :
        (/\ c # d /\ Overlapped(c, d)
         /\ Answered(c) /\ Answered(d)
         /\ OnlyFor(c) /\ OnlyFor(d))
        => \/ BypassOf(policy, calls[c].mac) # Asked(calls[c].bypass)
           \/ BypassOf(policy, calls[d].mac) # Asked(calls[d].bypass)

\* C24 (amended): overlapping requests are handled one after the other, the
\* load-modify-save cycle of one running from its load to its return before
\* the load of the next.  Each save writes the stored policy with the
\* request's own change made to it and nothing else changed, every request
\* for a leased MAC returns "updated", and when two overlapping requests for
\* different MACs have both returned, the stored policy holds both changes.
C24_OverlappingCallsSerialised ==
    /\ [](Cardinality(InHandler) <= 1)
    /\ [](\A c \in CallIds :
            calls[c].pc = "done" => calls[c].status = "updated")
    /\ [][\A c \in CallIds :
            (calls[c].pc = "opened" /\ calls'[c].pc = "saved") =>
                /\ policy' = set_device_bypass_update(
                                 policy, calls[c].mac, calls[c].bypass).config
                /\ BypassOf(policy', calls[c].mac) = Asked(calls[c].bypass)
                /\ \A mac \in OverlapMacs :
                    to_lower(mac) # to_lower(calls[c].mac) =>
                        BypassOf(policy', mac) = BypassOf(policy, mac)]_vars
    /\ [][policy' # policy =>
            \E c \in CallIds :
                calls[c].pc = "opened" /\ calls'[c].pc = "saved"]_vars
    /\ [](\A c, d \in CallIds :
            (/\ c # d /\ Overlapped(c, d)
             /\ Answered(c) /\ Answered(d)
             /\ OnlyFor(c) /\ OnlyFor(d))
            => /\ BypassOf(policy, calls[c].mac) = Asked(calls[c].bypass)
               /\ BypassOf(policy, calls[d].mac) = Asked(calls[d].bypass))

\* Two requests for different MACs that were not saved before, one received
\* while the other was waiting or being handled, have both returned
\* "updated", and the stored policy holds both devices.
C24_Witness ==
    \E c, d \in CallIds :
        /\ c # d /\ Overlapped(c, d)
        /\ Answered(c) /\ Answered(d)
        /\ calls[c].mac = "aa:bb:cc:dd:ee:ff" /\ calls[d].mac = "11:22:33:44:55:66"
        /\ calls[c].bypass /\ calls[d].bypass
        /\ Len(policy.devices) = 2
        /\ BypassOf(policy, calls[c].mac) = "on"
        /\ BypassOf(policy, calls[d].mac) = "on"

\* The step in which request c runs the command cmd.
Runs(c, cmd) ==
    /\ calls[c].pc = "routing" /\ calls[c].cmds # <<>>
    /\ Head(calls[c].cmds) = cmd
    /\ calls'[c].cmds = Tail(calls[c].cmds)

\* The overlapping requests c and d for the device with the neighbor row
\* have both returned and no other request was for that device.
BothServed(c, d) ==
    /\ c # d /\ Overlapped(c, d)
    /\ Answered(c) /\ Answered(d)
    /\ calls[c].mac = "aa:bb:cc:dd:ee:ff" /\ calls[d].mac = "aa:bb:cc:dd:ee:ff"
    /\ \A e \in CallIds \ {c, d} :
        calls[e].pc = "idle" \/ calls[e].mac # "aa:bb:cc:dd:ee:ff"

\* C25 (as claimed): two overlapping enabling requests for one address run
\* their commands in the order delete, delete, add, add and leave two
\* identical mark rules for it, and an overlapping enabling and disabling
\* request end with no mark rule installed although the policy saved last
\* says bypass.
C25_OverlapDuplicatesOrDrops ==
    \A c, d \in CallIds :
        BothServed(c, d) =>
            /\ (calls[c].bypass /\ calls[d].bypass) =>
                Count(sys.mangle, MarkSrc("192.168.10.11")) = 2
            /\ (calls[c].bypass /\ ~calls[d].bypass
                    /\ BypassOf(policy, "aa:bb:cc:dd:ee:ff") = "on") =>
                Count(sys.mangle, MarkSrc("192.168.10.11")) = 0

\* C25 (amended): the commands of overlapping requests do not interleave:
\* while one request runs its commands no other request is in its handler,
\* so each delete is followed by the add of the same request (delete, add,
\* delete, add).  Starting without a mark rule for an address, no state has
\* two identical mark rules for it: an add finds none and leaves one, a
\* delete leaves none.  Whenever no handler is running, the mark rule of a
\* device whose address the neighbor table gives is installed exactly when
\* the policy saved last says bypass, so overlapping enabling and disabling
\* requests never end with the rule missing while the saved policy says
\* bypass.  The run_commands of ensure_bypass_infrastructure leave what the
\* function leaves.
C25_OverlappingCommandsSerialised ==
    /\ [](\A ip \in DevIps : Count(sys.mangle, MarkSrc(ip)) <= 1)
    /\ [](\A c \in CallIds : calls[c].pc = "routing" => InHandler = {c})
    /\ [](\A route \in BOOLEAN, show \in BOOLEAN :
            LET ch == [route |-> route, show |-> show]
            IN  RunAlone(sys, ensure_bypass_infrastructure_commands, ch)
                    = ensure_bypass_infrastructure(sys, ch))
    /\ [](InHandler = {} =>
            \A mac \in OverlapMacs :
                LET ip == arp_lookup(env.arp, mac)
                IN  ip # None =>
                        Count(sys.mangle, MarkSrc(ip))
                            = IF BypassOf(policy, mac) = "on" THEN 1 ELSE 0)
    /\ [][\A c \in CallIds, ip \in DevIps :
            /\ Runs(c, AddMarkSrc(ip)) =>
                /\ Count(sys.mangle, MarkSrc(ip)) = 0
                /\ Count(sys'.mangle, MarkSrc(ip)) = 1
            /\ Runs(c, DelMarkSrc(ip)) =>
                /\ Count(sys'.mangle, MarkSrc(ip)) = 0
                /\ calls[c].bypass =>
                    \E k \in 1..Len(calls'[c].cmds) :
                        calls'[c].cmds[k] = AddMarkSrc(ip)
            /\ (Runs(c, AddMarkSrc(ip)) \/ Runs(c, DelMarkSrc(ip))) =>
                policy' = policy]_vars

\* Three requests for the device with the neighbor row have returned
\* "updated": two enabling ones that overlapped, and a disabling one that
\* overlapped an enabling one.  An enabling one was handled last: the policy
\* says bypass and the mark rule of the address is installed once.
C25_Witness ==
    \E a, b, d \in CallIds :
        /\ a # b /\ d \notin {a, b}
        /\ \A c \in {a, b, d} :
            Answered(c) /\ calls[c].mac = "aa:bb:cc:dd:ee:ff"
        /\ calls[a].bypass /\ calls[b].bypass /\ ~calls[d].bypass
        /\ Overlapped(a, b)
        /\ Overlapped(a, d) \/ Overlapped(b, d)
        /\ BypassOf(policy, "aa:bb:cc:dd:ee:ff") = "on"
        /\ Count(sys.mangle, MarkSrc("192.168.10.11")) = 1

-----------------------------------------------------------------------------
(* Claims about adding profiles, under SpecStore *)

\* C26: add_vpn_profile answers 400 when the sanitized name is empty, 409
\* when a profile of the sanitized name exists (whatever the content), and
\* 400 when the name is free and the content lacks "[Interface]" or
\* "[Peer]"; every failing call leaves the profile store as it was, so no
\* stored content is ever overwritten; a successful call adds the profile of
\* the sanitized name with the given content and changes no other.
C26_AddProfileContract ==
    /\ [](\A name \in AddNames, config_content \in AddContents :
            LET out == add_vpn_profile(profiles, name, config_content)
                valid == has_interface(config_content) /\ has_peer(config_content)
            IN  /\ sanitize(name) = "" => out.status = "400"
                /\ sanitize(name) \in DOMAIN profiles => out.status = "409"
                /\ (~valid /\ sanitize(name) \notin DOMAIN profiles)
                        => out.status = "400"
                /\ ~valid => out.status \in {"400", "409"}
                /\ out.status \in {"400", "409", "success"}
                /\ out.status # "success" => out.store = profiles)
    /\ [][result'.op = "add_profile" =>
            /\ \A n \in DOMAIN profiles :
                    n \in DOMAIN profiles' /\ profiles'[n] = profiles[n]
            /\ IF result'.status = "success"
               THEN /\ result'.flag /\ sanitize(result'.arg) # ""
                    /\ sanitize(result'.arg) \notin DOMAIN profiles
                    /\ DOMAIN profiles' = DOMAIN profiles \cup {sanitize(result'.arg)}
                    /\ policy' = policy /\ sys' = sys
               ELSE /\ profiles' = profiles
                    /\ \/ ~result'.flag
                       \/ sanitize(result'.arg) = ""
                       \/ sanitize(result'.arg) \in DOMAIN profiles]_vars

\* A valid content posted under a name that sanitizes to a stored profile
\* was answered 409, and the stored content is the original one.
C26_Witness ==
    /\ result.op = "add_profile" /\ result.status = "409"
    /\ result.arg = "../siteA" /\ result.flag
    /\ profiles["siteA"] = "contentA"
    /\ "siteC" \in DOMAIN profiles

-----------------------------------------------------------------------------
(* Claims about the states between tunnel operations, under Spec *)

\* C27: between connect, disconnect and kill-switch calls, run one at a time
\* from a host without reject rule, the reject rule is installed only while
\* kill_switch_enabled is set and active_vpn is None, and at most once.
C27_RejectRuleOnlyWhenArmedAndIdle ==
    /\ KillSwitchRules <= 1
    /\ KillSwitchRules > 0 =>
            policy.kill_switch_enabled /\ policy.active_vpn = None

\* The reject rule is back in place after the tunnel that had lifted it was
\* disconnected.
C27_Witness ==
    /\ prev.op = "connect" /\ prev.status = "connected"
    /\ result.op = "disconnect" /\ result.status = "disconnected"
    /\ KillSwitchRules = 1
    /\ policy.kill_switch_enabled /\ policy.active_vpn = None

\* C28: between connect and disconnect calls, the calls that fail included,
\* active_vpn is set if and only if the interface wg0 is up.
C28_ActiveProfileIffTunnelUp ==
    (policy.active_vpn # None) <=> (WG_INTERFACE \in sys.ifUp)

-----------------------------------------------------------------------------
(* Claims about the active profile and the profile store, under SpecStore *)

\* C29: between profile add, profile delete, connect and disconnect calls,
\* run one at a time, the profile named by active_vpn has a file in the
\* profile store.
C29_ActiveProfileIsStored ==
    policy.active_vpn # None => policy.active_vpn \in DOMAIN profiles

\* The deletion of the profile that active_vpn names was refused while its
\* tunnel was down after a failed reconnect, and the profile is still stored.
C29_Witness ==
    /\ result.op = "delete_profile" /\ result.status = "400"
    /\ policy.active_vpn = result.arg
    /\ result.arg \in DOMAIN profiles
    /\ WG_INTERFACE \notin sys.ifUp
    /\ "siteC" \in DOMAIN profiles

-----------------------------------------------------------------------------
(* Claims about the order of the steps of a connect, under Spec *)

CleanupSteps ==
    {"systemctl_disable", "systemctl_stop", "wg_show_interfaces",
     "wg_quick_down", "ip_link_delete"}

At(steps, t) == {i \in 1..Len(steps) : steps[i].t = t}

\* Every index of a step of kind t is below every index of a step of kind u.
Before(steps, t, u) ==
    \A i \in At(steps, t), j \in At(steps, u) : i < j

Once(steps, t) == Cardinality(At(steps, t)) = 1

\* The order of the steps of a connect for profile_name, where block tells
\* whether the stored kill-switch flag was set when the call began, s is the
\* OS state then and ch the commands that succeed.
ConnectOrder(steps, profile_name, block, s, ch) ==
    /\ steps[1] = Step("load_config", "-") /\ Once(steps, "load_config")
    /\ \A n \in s.confs :
            \E i \in At(steps, "systemctl_disable") :
                /\ steps[i].arg = n
                /\ steps[i + 1] = Step("systemctl_stop", n)
    /\ Once(steps, "wg_show_interfaces")
    /\ Before(steps, "systemctl_stop", "wg_show_interfaces")
    /\ ch.list =>
            \A n \in s.ifUp \ (s.confs \cap LegacyNames \cap ch.stopped) :
                \E i \in At(steps, "wg_quick_down") :
                    /\ steps[i].arg = n
                    /\ i > CHOOSE j \in At(steps, "wg_show_interfaces") : TRUE
    /\ \A t \in CleanupSteps : Before(steps, t, "cp")
    /\ Once(steps, "cp") /\ Once(steps, "wg_quick_up")
    /\ Once(steps, "systemctl_enable") /\ Once(steps, "save_config")
    /\ \A i \in At(steps, "cp") : steps[i].arg = profile_name
    /\ Before(steps, "cp", "wg_quick_up")
    /\ Before(steps, "wg_quick_up", "systemctl_enable")
    /\ Before(steps, "systemctl_enable", "iptables_delete_killswitch")
    /\ Before(steps, "systemctl_enable", "save_config")
    /\ Before(steps, "iptables_delete_killswitch", "save_config")
    /\ (At(steps, "iptables_delete_killswitch") # {}) <=> block
    /\ steps[Len(steps)] = Step("save_config", profile_name)

\* C30: a connect that succeeds loads the policy first and only once, then
\* runs the whole cleanup (disable and stop for every config file, the
\* interface listing, a teardown for every interface listed), then copies the
\* profile to the live config, brings wg0 up, enables its autostart, removes
\* the reject rule exactly when the flag loaded at the start is set, and
\* saves active_vpn as its last step; the steps, run in order, give the state
\* the call leaves.
C30_ConnectStepOrder ==
    /\ [](\A profile_name \in DOMAIN profiles, c \in ConnectChoices(sys) :
            LET out == connect_vpn(profiles, policy, sys, profile_name, c)
                left == [s |-> out.s, p |-> out.p]
            IN  \A glob \in Listings(sys.confs), ifaces \in Listings(sys.ifUp) :
                LET ch == Listed(c, glob, ifaces)
                    steps == connect_vpn_steps(profiles, policy, sys,
                                               profile_name, ch)
                IN  /\ RunSteps([s |-> sys, p |-> policy], steps, profiles, c)
                            = left
                    /\ out.status = "connected" =>
                        ConnectOrder(steps, profile_name,
                                     policy.kill_switch_enabled, sys, c))
    /\ [][(result'.op = "connect" /\ result'.status = "connected") =>
            /\ policy'.active_vpn = result'.arg
            /\ policy'.kill_switch_enabled = policy.kill_switch_enabled
            /\ sys'.liveConf = profiles[result'.arg]
            /\ WG_INTERFACE \in sys'.ifUp
            /\ policy.kill_switch_enabled => Count(sys'.forward, KILLSWITCH) = 0]_vars

\* A connect succeeded on a host with a legacy config file and the kill
\* switch armed: the reject rule is lifted and the profile is active.
C30_Witness ==
    /\ result.op = "connect" /\ result.status = "connected"
    /\ prev.op = "kill_switch" /\ prev.flag
    /\ LegacyNames \subseteq sys.confs
    /\ policy.kill_switch_enabled /\ KillSwitchRules = 0
    /\ policy.active_vpn = "siteB" /\ sys.liveConf = "contentB"

-----------------------------------------------------------------------------
(* Claims about the states a tunnel operation passes through, under Spec *)

\* The kill-switch flag is stored, wg0 is down and no reject rule is there.
Unprotected(st) ==
    /\ st.p.kill_switch_enabled
    /\ WG_INTERFACE \notin st.s.ifUp
    /\ Count(st.s.forward, KILLSWITCH) = 0

\* The kill-switch flag is stored, no tunnel interface at all is up and no
\* reject rule is there.
UnprotectedNoTunnel(st) ==
    /\ st.p.kill_switch_enabled
    /\ st.s.ifUp = {}
    /\ Count(st.s.forward, KILLSWITCH) = 0

\* C31 (as claimed): a disconnect that succeeds with kill_switch_enabled set
\* inserts the reject rule only after wg-quick down, the autostart disable
\* and the save of active_vpn = None, and a connect that succeeds with the
\* flag set while wg0 is up tears wg0 down and inserts no reject rule; each
\* of the two passes through a state in which the flag is set, no tunnel is
\* up and no reject rule is installed.
C31_NoTunnelWindow ==
    /\ \A show \in BOOLEAN, down \in BOOLEAN, disable \in BOOLEAN :
            LET ch == [show |-> show, down |-> down, disable |-> disable]
                out == disconnect_vpn(policy, sys, ch)
                steps == disconnect_vpn_steps(policy, sys, ch)
                sts == StatesOf([s |-> sys, p |-> policy], steps, profiles,
                                [down |-> IF down THEN {WG_INTERFACE} ELSE {},
                                 disable |-> disable])
            IN  (out.status = "disconnected" /\ policy.kill_switch_enabled) =>
                    /\ Before(steps, "wg_quick_down", "iptables_insert_killswitch")
                    /\ Before(steps, "systemctl_disable_wg0",
                              "iptables_insert_killswitch")
                    /\ Before(steps, "save_config", "iptables_insert_killswitch")
                    /\ \E k \in 1..Len(sts) : UnprotectedNoTunnel(sts[k])
    /\ \A profile_name \in DOMAIN profiles, c \in ConnectChoices(sys),
           glob \in Listings(sys.confs), ifaces \in Listings(sys.ifUp) :
            (policy.kill_switch_enabled /\ WG_INTERFACE \in sys.ifUp) =>
                LET ch == Listed(c, glob, ifaces)
                    out == connect_vpn(profiles, policy, sys, profile_name, ch)
                    steps == connect_vpn_steps(profiles, policy, sys,
                                               profile_name, ch)
                    sts == StatesOf([s |-> sys, p |-> policy], steps, profiles, ch)
                IN  /\ At(steps, "iptables_insert_killswitch") = {}
                    /\ out.status = "connected" =>
                        \E k \in 1..Len(sts) : UnprotectedNoTunnel(sts[k])

\* C31 (amended): a disconnect that succeeds with kill_switch_enabled set
\* inserts the reject rule only after wg-quick down, the autostart disable
\* and the save of active_vpn = None, and a connect that succeeds with the
\* flag set while wg0 is up tears wg0 down and inserts no reject rule; each
\* of the two passes through a state in which the flag is set, wg0 is down
\* and no reject rule is installed.  In that state of a disconnect exactly
\* the other interfaces that were up before are up, since disconnect acts on
\* wg0 alone; in that state of a connect no interface is up when the teardown
\* commands of its cleanup succeeded for every interface.  The steps, run in
\* order, give the state each call leaves.
C31_UnprotectedWindow ==
    /\ [](\A show \in BOOLEAN, down \in BOOLEAN, disable \in BOOLEAN :
            LET ch == [show |-> show, down |-> down, disable |-> disable]
                out == disconnect_vpn(policy, sys, ch)
                steps == disconnect_vpn_steps(policy, sys, ch)
                sts == StatesOf([s |-> sys, p |-> policy], steps, profiles,
                                [down |-> IF down THEN {WG_INTERFACE} ELSE {},
                                 disable |-> disable])
            IN  /\ sts[Len(sts)] = [s |-> out.s, p |-> out.p]
                /\ (out.status = "disconnected" /\ policy.kill_switch_enabled) =>
                    /\ Once(steps, "iptables_insert_killswitch")
                    /\ Before(steps, "wg_quick_down", "iptables_insert_killswitch")
                    /\ Before(steps, "systemctl_disable_wg0",
                              "iptables_insert_killswitch")
                    /\ Before(steps, "save_config", "iptables_insert_killswitch")
                    /\ Once(steps, "wg_quick_down") /\ Once(steps, "save_config")
                    /\ Once(steps, "systemctl_disable_wg0")
                    /\ \E k \in 1..Len(sts) :
                        /\ Unprotected(sts[k]) /\ sts[k].p.active_vpn = None
                        /\ sts[k].s.ifUp = sys.ifUp \ {WG_INTERFACE})
    /\ [](\A profile_name \in DOMAIN profiles, c \in ConnectChoices(sys),
              glob \in Listings(sys.confs), ifaces \in Listings(sys.ifUp) :
            (policy.kill_switch_enabled /\ WG_INTERFACE \in sys.ifUp) =>
                LET ch == Listed(c, glob, ifaces)
                    out == connect_vpn(profiles, policy, sys, profile_name, ch)
                    steps == connect_vpn_steps(profiles, policy, sys,
                                               profile_name, ch)
                    sts == StatesOf([s |-> sys, p |-> policy], steps, profiles, ch)
                IN  /\ At(steps, "iptables_insert_killswitch") = {}
                    /\ out.status = "connected" =>
                        \E k \in 1..Len(sts) :
                            /\ Unprotected(sts[k])
                            /\ k <= CHOOSE j \in At(steps, "cp") : TRUE
                            /\ sts[k].s.ifUp \subseteq sys.ifUp \ {WG_INTERFACE}
                            /\ TeardownSucceeds(sys, ch) => sts[k].s.ifUp = {})
    /\ [][(/\ result'.op = "disconnect" /\ result'.status = "disconnected"
           /\ policy.kill_switch_enabled) =>
            /\ Count(sys.forward, KILLSWITCH) = 0
            /\ Count(sys'.forward, KILLSWITCH) = 1
            /\ policy'.active_vpn = None]_vars

\* The kill switch was armed while the tunnel was up beside a legacy
\* interface, and the disconnect that followed went through the unprotected
\* state before it installed the rule; the legacy interface is still up.
C31_Witness ==
    /\ prev.op = "kill_switch" /\ prev.flag
    /\ result.op = "disconnect" /\ result.status = "disconnected"
    /\ policy.kill_switch_enabled /\ policy.active_vpn = None
    /\ sys.ifUp = LegacyNames /\ sys.forward = <<KILLSWITCH>>

-----------------------------------------------------------------------------
(* Claims about the FORWARD chain, under SpecForward *)

ForwardAccepts ==
    {i \in 1..Len(sys.forward) : sys.forward[i].t \in {"ACCEPT_OUT", "ACCEPT_IN"}}

\* C32: whenever the reject rule is installed it is the first rule of the
\* FORWARD chain and so stands before every forwarding-accept rule of a
\* bypassed device, whether the accept rules were appended before or after
\* the reject rule was inserted.
C32_RejectRuleFirst ==
    Count(sys.forward, KILLSWITCH) > 0 =>
        /\ sys.forward[1] = KILLSWITCH
        /\ \A i \in ForwardAccepts : FirstIndex(sys.forward, KILLSWITCH) < i

\* The accept rules of a device were installed first and the kill switch was
\* armed afterwards: the reject rule stands before them.
C32_Witness ==
    /\ prev.op = "set_device_bypass" /\ prev.flag /\ prev.status = "updated"
    /\ result.op = "kill_switch" /\ result.flag
    /\ sys.forward = <<KILLSWITCH, AcceptOut("192.168.10.11"),
                       AcceptIn("192.168.10.11")>>

-----------------------------------------------------------------------------
(* Claims about domain bypass under a static DNS mapping, under SpecStaticDns *)

PolicyDomains ==
    {policy.domain_bypasses[i].domain : i \in 1..Len(policy.domain_bypasses)}

\* C33: under a DNS mapping that never changes and always resolves, every
\* domain in the policy has one destination mark rule installed for each of
\* its resolved addresses, also when two domains of the policy share an
\* address and one of them is removed.
C33_PolicyDomainsAreMarked ==
    \A domain \in PolicyDomains :
        \A i \in 1..Len(env.dns[domain].ips) :
            Count(sys.mangle, MarkDst(env.dns[domain].ips[i])) = 1

-----------------------------------------------------------------------------
(* Claims about device rules and the live neighbor table, under SpecDevice *)

DeviceRulesFor(s, ip) ==
    <<Count(s.mangle, MarkSrc(ip)), Count(s.forward, AcceptOut(ip)),
      Count(s.forward, AcceptIn(ip))>>

SavedBypass(config, mac) ==
    config.devices[FindMac(config.devices, mac)].bypass_vpn

\* C34: set_device_bypass changes rules only for the address the MAC has in
\* the neighbor table at the time of the call: the rules of every other
\* address stay as they were, so the mark rule and the two accept rules of an
\* address the device was enabled at remain when it is disabled or enabled
\* again at another address; with no neighbor row at a disable no rule is
\* removed although the policy then records bypass_vpn = false.
C34_RulesFollowLiveNeighborTable ==
    [][result'.op = "set_device_bypass" =>
        LET mac == url_decode(result'.arg)
            now == arp_lookup(env.arp, mac)
        IN  /\ \A ip \in DevIps :
                  IF ip # now
                  THEN DeviceRulesFor(sys', ip) = DeviceRulesFor(sys, ip)
                  ELSE \/ DeviceRulesFor(sys', ip) = DeviceRulesFor(sys, ip)
                       \/ DeviceRulesFor(sys', ip) =
                            IF result'.flag THEN <<1, 1, 1>> ELSE <<0, 0, 0>>
            /\ (now = None /\ ~result'.flag /\ result'.status = "updated") =>
                  /\ sys' = sys
                  /\ ~SavedBypass(policy', mac)]_vars

\* The device was enabled at one address and disabled at the other: the three
\* rules of the first address are still installed and the policy records the
\* bypass as off.
C34_Witness ==
    /\ result.op = "set_device_bypass" /\ ~result.flag
    /\ result.status = "updated"
    /\ env.arp["aa:bb:cc:dd:ee:ff"] = "192.168.10.12"
    /\ hist["192.168.10.11"] = "enable" /\ hist["192.168.10.12"] = "disable"
    /\ DeviceRulesFor(sys, "192.168.10.11") = <<1, 1, 1>>
    /\ ~SavedBypass(policy, "aa:bb:cc:dd:ee:ff")

\* The device was enabled with a neighbor row and disabled with none: its
\* rules are still installed and the policy records the bypass as off.
C34_DisabledWithoutRow ==
    /\ result.op = "set_device_bypass" /\ ~result.flag
    /\ result.status = "updated"
    /\ env.arp["aa:bb:cc:dd:ee:ff"] = None
    /\ DeviceRulesFor(sys, "192.168.10.11") = <<1, 1, 1>>
    /\ ~SavedBypass(policy, "aa:bb:cc:dd:ee:ff")

-----------------------------------------------------------------------------
(* Claims about the bypass infrastructure, under SpecBypass *)

Ensured(cmds) == {i \in 1..Len(cmds) : cmds[i].t = "ENSURE_INFRASTRUCTURE"}

AddsMark(cmds) ==
    {i \in 1..Len(cmds) : cmds[i].t \in {"APPEND_MARK_SRC", "APPEND_MARK_DST"}}

Infra(s) == <<s.route, s.rules, s.nat>>

InfraComplete(s) ==
    /\ s.route = BYPASS_ROUTE
    /\ Count(s.rules, FWMARK_RULE) > 0
    /\ Count(s.nat, MASQUERADE) > 0

\* ensure_bypass_infrastructure is the first command when it is issued and no
\* mark rule is added without it.
EnsuredBeforeMarks(cmds) ==
    /\ Ensured(cmds) \subseteq {1}
    /\ AddsMark(cmds) # {} => Ensured(cmds) = {1}

\* C35: ensure_bypass_infrastructure runs before any mark rule is added and
\* only when enabling with something to install (a device with a resolved
\* address, a domain with at least one resolved address); no disable path
\* changes the bypass route, the fwmark rules or the masquerade rule, and
\* infrastructure once complete stays complete under every bypass operation.
C35_InfrastructureOnlyWhenInstalling ==
    /\ [](\A mac_in \in MacInputs, bypass \in BOOLEAN, arp \in BOOLEAN,
             route \in BOOLEAN, show \in BOOLEAN :
            LET ch == [arp |-> arp, route |-> route, show |-> show]
                mac == url_decode(mac_in)
                cmds == apply_device_routing_commands(env.arp, mac, bypass, arp)
                after == apply_device_routing(sys, env.arp, mac, bypass, ch).s
            IN  /\ RunCommands(sys, cmds, ch) = after
                /\ EnsuredBeforeMarks(cmds)
                /\ Ensured(cmds) # {} <=>
                      (bypass /\ arp /\ arp_lookup(env.arp, mac) # None)
                /\ ~bypass => Infra(after) = Infra(sys))
    /\ [](\A domain \in Domains, enable \in BOOLEAN,
             route \in BOOLEAN, show \in BOOLEAN :
            LET ch == [route |-> route, show |-> show]
                answer == env.dns[domain]
                cmds == apply_domain_bypass_commands(answer, enable)
                after == apply_domain_bypass(sys, answer, enable, ch)
            IN  /\ RunCommands(sys, cmds, ch) = after
                /\ EnsuredBeforeMarks(cmds)
                /\ Ensured(cmds) # {} <=>
                      (enable /\ answer.ok /\ answer.ips # <<>>)
                /\ ~enable => Infra(after) = Infra(sys))
    /\ [][result'.op \in {"set_device_bypass", "add_domain_bypass",
                          "remove_domain_bypass"} =>
            /\ EnsuredBeforeMarks(issued')
            /\ Ensured(issued') = {} => Infra(sys') = Infra(sys)
            /\ ~result'.flag => (Ensured(issued') = {} /\ Infra(sys') = Infra(sys))
            /\ InfraComplete(sys) => InfraComplete(sys')]_vars

\* A device and a domain were enabled and both disabled again: the
\* infrastructure is still complete while no mark rule is left.
C35_Witness ==
    /\ result.op = "remove_domain_bypass" /\ result.status = "success"
    /\ policy.domain_bypasses = <<>>
    /\ Len(policy.devices) = 1 /\ ~policy.devices[1].bypass_vpn
    /\ hist["192.168.10.11"] = "disable"
    /\ sys.mangle = <<>> /\ sys.forward = <<>>
    /\ InfraComplete(sys)

-----------------------------------------------------------------------------
(* Claims about the teardown of the cleanup pass, under Spec *)

StepsAt(steps, step) == {k \in 1..Len(steps) : steps[k] = step}

\* The teardown of the cleanup in state s under the command outcomes ch:
\* each interface the listing reports gets one graceful teardown, after the
\* listing, followed directly by a forced deletion exactly when the graceful
\* teardown failed; an interface not reported gets neither; where every
\* interface up at the listing was reported and one of its two commands
\* succeeded, no interface is up afterwards.
GracefulThenForced(s, p, store, ch) ==
    LET steps == cleanup_previous_state_steps(s, ch)
        sts == StatesOf([s |-> s, p |-> p], steps, store, ch)
        listing == CHOOSE k \in At(steps, "wg_show_interfaces") : TRUE
        upAtListing == sts[listing].s.ifUp
        reported == IF ch.list THEN upAtListing ELSE {}
        Downs(i) == StepsAt(steps, Step("wg_quick_down", i))
        Dels(i) == StepsAt(steps, Step("ip_link_delete", i))
        GracefulOk(i) ==
            LET k == CHOOSE k \in Downs(i) : TRUE
            IN  WgQuickDownOk(sts[k].s, i, i \in ch.down)
    IN  /\ Once(steps, "wg_show_interfaces")
        /\ sts[Len(sts)].s = cleanup_previous_state(s, ch)
        /\ \A i \in IfaceNames :
              IF i \in reported
              THEN /\ Cardinality(Downs(i)) = 1
                   /\ \A k \in Downs(i) :
                         /\ listing < k
                         /\ Dels(i) = IF GracefulOk(i) THEN {} ELSE {k + 1}
              ELSE Downs(i) = {} /\ Dels(i) = {}
        /\ (\A i \in upAtListing :
                i \in reported /\ (GracefulOk(i) \/ i \in ch.del)) =>
              cleanup_previous_state(s, ch).ifUp = {}

\* C36: in the cleanup pass each reported interface is torn down gracefully
\* first and force-deleted if and only if that failed, every reported
\* interface is processed whatever happened to earlier ones, and when for
\* each interface one of the two commands succeeded no interface is up
\* afterwards.
C36_GracefulTeardownThenForcedDeletion ==
    \A c \in ConnectChoices(sys),
       glob \in Listings(sys.confs), ifaces \in Listings(sys.ifUp) :
        GracefulThenForced(sys, policy, profiles, Listed(c, glob, ifaces))

\* Two interfaces are up, the legacy one without a config file: some cleanup
\* tears wg0 down gracefully, fails to do so for the legacy interface,
\* force-deletes that one and leaves no interface up.
C36_Witness ==
    /\ result.op = "connect" /\ result.status = "connected"
    /\ sys.ifUp = IfaceNames
    /\ \E c \in ConnectChoices(sys),
          glob \in Listings(sys.confs), ifaces \in Listings(sys.ifUp) :
          LET ch == Listed(c, glob, ifaces)
              steps == cleanup_previous_state_steps(sys, ch)
          IN  /\ StepsAt(steps, Step("wg_quick_down", WG_INTERFACE)) # {}
              /\ StepsAt(steps, Step("ip_link_delete", WG_INTERFACE)) = {}
              /\ StepsAt(steps, Step("wg_quick_down", "wg-lon-st001")) # {}
              /\ StepsAt(steps, Step("ip_link_delete", "wg-lon-st001")) # {}
              /\ cleanup_previous_state(sys, ch).ifUp = {}

-----------------------------------------------------------------------------
(* Claims about rules the kernel held before the call, under SpecKernel *)

\* C37: toggle_kill_switch(true) with no active profile leaves exactly one
\* reject rule whatever number of them the kernel held before (0, 1 or more),
\* toggle_kill_switch(false) leaves none, and the delete-then-add of a device
\* mark rule leaves exactly one mark rule from any prior count.
C37_ExactlyOneRuleFromAnyPriorCount ==
    [][/\ (result'.op = "kill_switch" /\ result'.flag /\ policy.active_vpn = None)
            => Count(sys'.forward, KILLSWITCH) = 1
       /\ (result'.op = "kill_switch" /\ ~result'.flag)
            => Count(sys'.forward, KILLSWITCH) = 0
       /\ (result'.op = "set_device_bypass" /\ AddsMark(issued') # {})
            => Count(sys'.mangle, MarkSrc("192.168.10.11")) = 1
      ]_vars

=============================================================================
